---- MODULE Spec2Model ----
(***************************************************************************)
(* HelpingAI-python: the streaming response decoder                        *)
(* (ChatCompletions._handle_stream_response), the tool dispatcher          *)
(* (HAI.call, HAI._process_arguments), chat create and the execution of    *)
(* tool calls of src/HelpingAI/client.py, the built-in tools, the          *)
(* validation of MCP configurations and the MCP-like server of             *)
(* src/HelpingAI/mcp_server.py.                                            *)
(*                                                                         *)
(* Text is modelled as a sequence of one-character strings, so that tags   *)
(* can be split between chunks.  Tool and server names are sequences of    *)
(* name parts in which "_" and "-" are parts of their own.                 *)
(***************************************************************************)
EXTENDS Integers, Sequences, FiniteSets, TLC

VARIABLES
    \* ---- one streaming chat completion (ChatCompletions.create, stream=True)
    hide_think,   \* the hide_think argument of create (sent as "hideThink")
    wire,         \* the lines response.iter_lines() will deliver, in order
    pos,          \* number of lines the generator has taken from iter_lines
    yielded,      \* the ChatCompletionChunk objects yielded so far
    exit,         \* how the iteration ended: "none" while it has not
    released,     \* the connection of the response went back to the transport
    \* ---- one HAI client and the process-wide tool registry
    registry,           \* names in get_registry()
    tools_config,       \* HAI._tools_config
    last_chat_tools,    \* HAI._last_chat_tools_config
    mcp_manager,        \* HAI._mcp_manager
    last,               \* the HAI.call that has just ended: its inputs, the
                        \* state it saw, what it consulted, invoked and raised;
                        \* idle once another operation has run
    \* ---- history of the client (not state of the program)
    chat_turn_tools,    \* tools of the most recent chat create that gave tools
    configured_since,   \* configure_tools ran after that chat create
    \* ---- one execute_tool_calls / create_tool_response_messages round
    batch,
        \* the message's tool calls, the loop position, the results
        \* and the tool-role messages built from them
    \* ---- one MCPManager.is_valid_mcp_servers_config call
    validation,
        \* the configuration given and the verdict
    \* ---- one execute call of a built-in tool
    tool_run,
        \* the tool, its keyword arguments, the work done and what was raised
    \* ---- two HAI.call invocations on one client, in two threads
    race,
        \* where each call is in its MCP stage, the bridge it built and the one
        \* it resolved against
    \* ---- the messages argument of one chat create
    conversion,
        \* the caller's messages before and after the call and the messages sent
    \* ---- one POST request to the MCP-like server
    conn,
        \* the request and what the handler has written to the connection
    \* ---- one MCPServer, the thread that starts it and the thread that stops it
    srv
        \* MCPServer.server, the flags of the HTTPServer and where the threads are

streamVars == <<hide_think, wire, pos, yielded, exit, released>>
historyVars == <<chat_turn_tools, configured_since>>
clientVars == <<registry, tools_config, last_chat_tools, mcp_manager, last,
                chat_turn_tools, configured_since>>
\* the components other than the streaming response and the client
otherVars == <<batch, validation, tool_run, race, conversion, conn, srv>>
vars == <<hide_think, wire, pos, yielded, exit, released,
          registry, tools_config, last_chat_tools, mcp_manager, last,
          chat_turn_tools, configured_since,
          batch, validation, tool_run, race, conversion, conn, srv>>

\* no tool calls are being executed
BatchIdle ==
    [phase |-> "idle", calls |-> <<>>, i |-> 0, results |-> <<>>, ran |-> <<>>,
     messages |-> <<>>]

\* no configuration is being validated
ValidationIdle ==
    [phase |-> "idle", config |-> <<>>, result |-> FALSE]

\* no built-in tool is being executed
ToolRunIdle ==
    [phase |-> "idle", tool |-> "", kwargs |-> <<>>, io |-> "", work |-> {},
     raised |-> "", named |-> {}]

\* no concurrent calls
RaceIdle ==
    [phase |-> "idle", effective |-> <<>>, cache |-> <<>>, stored |-> <<>>,
     calls |-> <<>>]

\* no messages are being converted
ConversionIdle ==
    [phase |-> "idle", given |-> <<>>, caller |-> <<>>, sent |-> <<>>, raised |-> "",
     cache0 |-> <<>>]

\* no request is being handled
ConnIdle ==
    [phase |-> "idle", request |-> <<>>, written |-> <<>>, ran |-> FALSE]

\* no server has been constructed
SrvIdle ==
    [phase |-> "idle", blocking |-> FALSE, server |-> "None", shutdown_request |-> FALSE,
     is_shut_down |-> FALSE, starter |-> "", stopper |-> "", stops |-> 0, handled |-> 0,
     reported |-> "none"]

OtherIdle ==
    /\ batch = BatchIdle
    /\ validation = ValidationIdle
    /\ tool_run = ToolRunIdle
    /\ race = RaceIdle
    /\ conversion = ConversionIdle
    /\ conn = ConnIdle
    /\ srv = SrvIdle

\* everything but batch
exceptBatch == <<streamVars, clientVars, validation, tool_run, race, conversion, conn, srv>>
ExceptBatchIdle ==
    /\ validation = ValidationIdle
    /\ tool_run = ToolRunIdle
    /\ race = RaceIdle
    /\ conversion = ConversionIdle
    /\ conn = ConnIdle
    /\ srv = SrvIdle

\* everything but validation
exceptValidation == <<streamVars, clientVars, batch, tool_run, race, conversion, conn, srv>>
ExceptValidationIdle ==
    /\ batch = BatchIdle
    /\ tool_run = ToolRunIdle
    /\ race = RaceIdle
    /\ conversion = ConversionIdle
    /\ conn = ConnIdle
    /\ srv = SrvIdle

\* everything but tool_run
exceptToolRun == <<streamVars, clientVars, batch, validation, race, conversion, conn, srv>>
ExceptToolRunIdle ==
    /\ batch = BatchIdle
    /\ validation = ValidationIdle
    /\ race = RaceIdle
    /\ conversion = ConversionIdle
    /\ conn = ConnIdle
    /\ srv = SrvIdle

\* everything but race
exceptRace == <<streamVars, clientVars, batch, validation, tool_run, conversion, conn, srv>>
ExceptRaceIdle ==
    /\ batch = BatchIdle
    /\ validation = ValidationIdle
    /\ tool_run = ToolRunIdle
    /\ conversion = ConversionIdle
    /\ conn = ConnIdle
    /\ srv = SrvIdle

\* everything but conversion
exceptConversion == <<streamVars, clientVars, batch, validation, tool_run, race, conn, srv>>
ExceptConversionIdle ==
    /\ batch = BatchIdle
    /\ validation = ValidationIdle
    /\ tool_run = ToolRunIdle
    /\ race = RaceIdle
    /\ conn = ConnIdle
    /\ srv = SrvIdle

\* everything but conn
exceptConn == <<streamVars, clientVars, batch, validation, tool_run, race, conversion, srv>>
ExceptConnIdle ==
    /\ batch = BatchIdle
    /\ validation = ValidationIdle
    /\ tool_run = ToolRunIdle
    /\ race = RaceIdle
    /\ conversion = ConversionIdle
    /\ srv = SrvIdle

\* everything but srv
exceptSrv == <<streamVars, clientVars, batch, validation, tool_run, race, conversion, conn>>
ExceptSrvIdle ==
    /\ batch = BatchIdle
    /\ validation = ValidationIdle
    /\ tool_run = ToolRunIdle
    /\ race = RaceIdle
    /\ conversion = ConversionIdle
    /\ conn = ConnIdle

(***************************************************************************)
(* Bounds                                                                  *)
(***************************************************************************)
\* a document is cut into chunks at no more than MaxCuts places
MaxCuts == 2
\* a mixed stream (blank lines, sentinel, malformed lines) has at most MaxLines lines
MaxLines == 3
\* longest tools list given to chat create
MaxTools == 2
\* most tool calls in an assistant message
MaxCalls == 2
\* longest messages list given to chat create
MaxMessages == 2
\* most requests a server handles before it is stopped
MaxServed == 2
\* most calls of stop on a server
MaxStops == 2

(***************************************************************************)
(* Sequence helpers                                                        *)
(***************************************************************************)
RECURSIVE Flatten(_)
Flatten(ss) == IF ss = <<>> THEN <<>> ELSE Head(ss) \o Flatten(Tail(ss))

SetMin(S) == CHOOSE x \in S : \A y \in S : x <= y

RECURSIVE SeqsUpTo(_, _)
SeqsUpTo(S, n) ==
    IF n = 0 THEN {<<>>}
    ELSE LET shorter == SeqsUpTo(S, n - 1)
         IN  shorter \cup {Append(s, x) : s \in shorter, x \in S}

\* s has the sequence t at position i
HasAt(s, t, i) == /\ i >= 1
                  /\ i + Len(t) - 1 <= Len(s)
                  /\ SubSeq(s, i, i + Len(t) - 1) = t

Contains(s, t) == \E i \in 1..Len(s) : HasAt(s, t, i)

(***************************************************************************)
(* The wire: server-sent event lines                                       *)
(***************************************************************************)
NoPayload == [t |-> "none", choices |-> <<>>]
BlankLine == [kind |-> "blank", payload |-> NoPayload]
\* a non-empty line without the "data: " prefix (an SSE comment or event: line)
OtherLine == [kind |-> "other", payload |-> NoPayload]
\* b"data: [DONE]"
DoneLine  == [kind |-> "done", payload |-> NoPayload]
\* "data: " followed by text json.loads rejects
BadJsonLine == [kind |-> "data", payload |-> [t |-> "badjson", choices |-> <<>>]]
\* "data: " followed by JSON that is no object (data.get raises)
NonObjectLine == [kind |-> "data", payload |-> [t |-> "nonobject", choices |-> <<>>]]

\* one element of "choices" on the wire; index -1 stands for an absent "index" key
WireChoice(idx, hasc, c, fin) ==
    [index |-> idx, has_content |-> hasc, content |-> c, finish_reason |-> fin]

DataLine(choices) == [kind |-> "data", payload |-> [t |-> "object", choices |-> choices]]

ContentLine(c, fin) == DataLine(<<WireChoice(0, TRUE, c, fin)>>)

(***************************************************************************)
(* Documents: complete message contents that a server streams in pieces    *)
(***************************************************************************)
OpenThink  == <<"<", "t", "h", "i", "n", "k", ">">>
CloseThink == <<"<", "/", "t", "h", "i", "n", "k", ">">>
OpenSer    == <<"<", "s", "e", "r", ">">>
CloseSer   == <<"<", "/", "s", "e", "r", ">">>
Secret     == <<"s", "e", "c", "r", "e", "t">>
Visible    == <<"v", "i", "s", "i", "b", "l", "e">>

ThinkDoc   == OpenThink \o Secret \o CloseThink \o Visible
SerDoc     == <<"a">> \o OpenSer \o <<"x", "y">> \o CloseSer \o <<"b">>
SpacesDoc  == <<"a", " ", " ", " ", " ", "b">>
NewlineDoc == <<"a", "\n", "\n", "\n", "\n", "b">>
PlainDoc   == <<"a", "b", "c">>

Documents == {ThinkDoc, SerDoc, SpacesDoc, NewlineDoc, PlainDoc}

\* the sets of at most k cut positions among 1..n
RECURSIVE CutsUpTo(_, _)
CutsUpTo(n, k) ==
    IF k = 0 THEN {{}}
    ELSE LET fewer == CutsUpTo(n, k - 1)
         IN  fewer \cup {c \cup {i} : c \in fewer, i \in 1..n}

\* the pieces of s when it is cut after each position of cuts
RECURSIVE SplitAt(_, _)
SplitAt(s, cuts) ==
    IF cuts = {} THEN <<s>>
    ELSE LET m == SetMin(cuts)
         IN  <<SubSeq(s, 1, m)>>
               \o SplitAt(SubSeq(s, m + 1, Len(s)), {x - m : x \in cuts \ {m}})

\* the stream of a document cut at cuts; withFinish: the last chunk carries
\* finish_reason "stop"
ChunkedWire(doc, cuts, withFinish) ==
    LET pieces == SplitAt(doc, cuts)
    IN  [k \in 1..Len(pieces) |->
            ContentLine(pieces[k],
                        IF withFinish /\ k = Len(pieces) THEN "stop" ELSE "None")]

SplitWires ==
    UNION {{ChunkedWire(d, c, f) : c \in CutsUpTo(Len(d) - 1, MaxCuts), f \in BOOLEAN}
             : d \in Documents}

\* lines of which mixed streams are made
LineAlphabet ==
    { BlankLine, OtherLine, DoneLine, BadJsonLine, NonObjectLine,
      ContentLine(<<"a">>, "None"),
      DataLine(<<WireChoice(-1, FALSE, <<>>, "stop")>>),
      DataLine(<<WireChoice(0, TRUE, <<"<", "t">>, "None"),
                 WireChoice(1, TRUE, <<"b">>, "None")>>),
      DataLine(<<>>) }

MixedWires == SeqsUpTo(LineAlphabet, MaxLines)

(***************************************************************************)
(* ChatCompletions._handle_stream_response                                 *)
(***************************************************************************)
\* Choice(index=choice_data.get("index", 0), delta=ChoiceDelta(content=
\* delta_data.get("content"), ...), finish_reason=choice_data.get("finish_reason"))
ChoiceOf(cd) ==
    [index |-> IF cd.index = -1 THEN 0 ELSE cd.index,
     delta |-> [has_content |-> cd.has_content, content |-> cd.content],
     finish_reason |-> cd.finish_reason]

\* faulty variant of ChunkOf: only the first of the line's choices is kept
ChunkOfFirstChoice(payload) ==
    [choices |-> [k \in 1..(IF Len(payload.choices) = 0 THEN 0 ELSE 1) |->
                     ChoiceOf(payload.choices[k])]]

\* the ChatCompletionChunk built from the decoded JSON object of one line
ChunkOf(payload) ==
    [choices |-> [k \in 1..Len(payload.choices) |-> ChoiceOf(payload.choices[k])]]

Running == exit = "none"
HasLine == Running /\ pos < Len(wire)
Line    == wire[pos + 1]

\* "if line:" is false, or the decoded line does not start with "data: "
SkipLine ==
    /\ HasLine
    /\ Line.kind \in {"blank", "other"}
    /\ pos' = pos + 1
    /\ UNCHANGED <<hide_think, wire, yielded, exit, released>>
    /\ UNCHANGED <<clientVars, otherVars>>

\* line.strip() == b"data: [DONE]": break
Sentinel ==
    /\ HasLine
    /\ Line.kind = "done"
    /\ pos' = pos + 1
    /\ exit' = "sentinel"
    /\ UNCHANGED <<hide_think, wire, yielded, released>>
    /\ UNCHANGED <<clientVars, otherVars>>

\* a "data: " line holding a JSON object: one chunk is yielded
YieldChunk ==
    /\ HasLine
    /\ Line.kind = "data"
    /\ Line.payload.t = "object"
    /\ pos' = pos + 1
    /\ yielded' = Append(yielded, ChunkOf(Line.payload))
    /\ UNCHANGED <<hide_think, wire, exit, released>>
    /\ UNCHANGED <<clientVars, otherVars>>

\* faulty variant of DecodeError: the exception is swallowed and the loop goes on
DecodeErrorSwallowed ==
    /\ HasLine
    /\ Line.kind = "data"
    /\ Line.payload.t \in {"badjson", "nonobject"}
    /\ pos' = pos + 1
    /\ UNCHANGED <<hide_think, wire, yielded, exit, released>>
    /\ UNCHANGED <<clientVars, otherVars>>

\* json.loads or the construction of the chunk raises: HAIError("Error parsing stream")
DecodeError ==
    /\ HasLine
    /\ Line.kind = "data"
    /\ Line.payload.t \in {"badjson", "nonobject"}
    /\ pos' = pos + 1
    /\ exit' = "error"
    /\ UNCHANGED <<hide_think, wire, yielded, released>>
    /\ UNCHANGED <<clientVars, otherVars>>

\* iter_lines() is exhausted: the for loop ends.  Having read the body to its
\* end, the transport takes the connection back; nothing in the generator
\* closes the response.
Exhausted ==
    /\ Running
    /\ pos = Len(wire)
    /\ exit' = "exhausted"
    /\ released' = TRUE
    /\ UNCHANGED <<hide_think, wire, pos, yielded>>
    /\ UNCHANGED <<clientVars, otherVars>>

\* the caller stops iterating while the generator is suspended (never
\* started, or at its yield): GeneratorExit is no Exception, the except
\* clause does not see it, and the generator ends
Abandon ==
    /\ Running
    /\ \/ pos = 0
       \/ /\ pos > 0
          /\ wire[pos].kind = "data"
          /\ wire[pos].payload.t = "object"
    /\ exit' = "abandoned"
    /\ UNCHANGED <<hide_think, wire, pos, yielded, released>>
    /\ UNCHANGED <<clientVars, otherVars>>

\* Nothing closes the response.  Once the generator is gone without having
\* read the body to its end, the connection stays open until the interpreter
\* happens to finalise the response object, if it ever does.
Collect ==
    /\ exit \in {"sentinel", "error", "abandoned"}
    /\ ~released
    /\ released' = TRUE
    /\ UNCHANGED <<hide_think, wire, pos, yielded, exit>>
    /\ UNCHANGED <<clientVars, otherVars>>

(***************************************************************************)
(* Python values handed to HAI.call as arguments, and JSON text            *)
(*                                                                         *)
(* A value is a record tagged by its type in field t.  A str that is       *)
(* handed over as text to be parsed is the sequence of its JSON tokens.    *)
(***************************************************************************)
PyNone      == [t |-> "none"]
PyInt(n)    == [t |-> "int", v |-> n]
PyStr(x)    == [t |-> "str", v |-> x]
PyList(q)   == [t |-> "list", v |-> q]
PyDict(f)   == [t |-> "dict", v |-> f]
PyText(ts)  == [t |-> "text", v |-> ts]
PySet(S)    == [t |-> "set", v |-> S]

NumTokens == {"1", "2"}
NumOf(tk) == IF tk = "1" THEN 1 ELSE 2
NumTok(n) == IF n = 1 THEN "1" ELSE "2"
StrTokens == {"\"x\"", "\"y\"", "\"s\""}
Unquote(tk) == CASE tk = "\"x\"" -> "x" [] tk = "\"y\"" -> "y" [] OTHER -> "s"
Quote(x) == CASE x = "x" -> "\"x\"" [] x = "y" -> "\"y\"" [] OTHER -> "\"s\""

ParseFail == [ok |-> FALSE, val |-> PyNone, next |-> 0]
ParseOk(val, next) == [ok |-> TRUE, val |-> val, next |-> next]

\* json.loads: recursive descent over the tokens ts from position i on
RECURSIVE ParseValue(_, _), ParseMembers(_, _, _), ParseElements(_, _, _)
ParseValue(ts, i) ==
    IF i > Len(ts) THEN ParseFail
    ELSE LET tk == ts[i]
         IN  CASE tk \in NumTokens -> ParseOk(PyInt(NumOf(tk)), i + 1)
               [] tk \in StrTokens -> ParseOk(PyStr(Unquote(tk)), i + 1)
               [] tk = "{" ->
                    IF i + 1 <= Len(ts) /\ ts[i + 1] = "}"
                    THEN ParseOk(PyDict(<<>>), i + 2)
                    ELSE ParseMembers(ts, i + 1, <<>>)
               [] tk = "[" ->
                    IF i + 1 <= Len(ts) /\ ts[i + 1] = "]"
                    THEN ParseOk(PyList(<<>>), i + 2)
                    ELSE ParseElements(ts, i + 1, <<>>)
               [] OTHER -> ParseFail

\* the members of an object after "{" or ","; a repeated key keeps the last value
ParseMembers(ts, i, acc) ==
    IF ~(i + 1 <= Len(ts) /\ ts[i] \in StrTokens /\ ts[i + 1] = ":") THEN ParseFail
    ELSE LET key == Unquote(ts[i])
             r   == ParseValue(ts, i + 2)
             now == [k \in (DOMAIN acc) \cup {key} |->
                        IF k = key THEN r.val ELSE acc[k]]
         IN  IF ~r.ok \/ r.next > Len(ts) THEN ParseFail
             ELSE IF ts[r.next] = "}" THEN ParseOk(PyDict(now), r.next + 1)
             ELSE IF ts[r.next] = "," THEN ParseMembers(ts, r.next + 1, now)
             ELSE ParseFail

ParseElements(ts, i, acc) ==
    LET r == ParseValue(ts, i)
    IN  IF ~r.ok \/ r.next > Len(ts) THEN ParseFail
        ELSE IF ts[r.next] = "]" THEN ParseOk(PyList(Append(acc, r.val)), r.next + 1)
        ELSE IF ts[r.next] = "," THEN ParseElements(ts, r.next + 1, Append(acc, r.val))
        ELSE ParseFail

\* json.loads(text): the value, or JSONDecodeError (also on trailing tokens)
Loads(ts) ==
    LET r == ParseValue(ts, 1)
    IN  IF r.ok /\ r.next = Len(ts) + 1 THEN [ok |-> TRUE, val |-> r.val]
        ELSE [ok |-> FALSE, val |-> PyNone]

\* the orders in which the keys D of a dict can be written
KeyOrders(D) ==
    {q \in [1..Cardinality(D) -> D] : \A k \in D : \E i \in DOMAIN q : q[i] = k}

\* JSON text of a value; a dict is written with its keys in the order keys
\* (dicts inside it in an order of their own)
RECURSIVE Dumps(_), DumpsKeys(_, _), DumpsItems(_)
Dumps(val) ==
    CASE val.t = "int"  -> <<NumTok(val.v)>>
      [] val.t = "str"  -> <<Quote(val.v)>>
      [] val.t = "list" -> <<"[">> \o DumpsItems(val.v) \o <<"]">>
      [] val.t = "dict" -> DumpsKeys(val.v, CHOOSE q \in KeyOrders(DOMAIN val.v) : TRUE)

DumpsItems(q) ==
    IF q = <<>> THEN <<>>
    ELSE Dumps(Head(q)) \o (IF Tail(q) = <<>> THEN <<>> ELSE <<",">> \o DumpsItems(Tail(q)))

DumpsKeys(f, keys) ==
    LET member(k) == <<Quote(k), ":">> \o Dumps(f[k])
        RECURSIVE rest(_)
        rest(q) == IF q = <<>> THEN <<>>
                   ELSE member(Head(q))
                          \o (IF Tail(q) = <<>> THEN <<>> ELSE <<",">> \o rest(Tail(q)))
    IN  <<"{">> \o rest(keys) \o <<"}">>

\* the JSON texts of a dict, one for each key order
JsonTexts(f) == {DumpsKeys(f, q) : q \in KeyOrders(DOMAIN f)}

(***************************************************************************)
(* HAI._process_arguments                                                  *)
(***************************************************************************)
ArgsOk(f)    == [ok |-> TRUE, args |-> f, err |-> "", note |-> FALSE, got |-> ""]
ArgsNoted(f) == [ok |-> TRUE, args |-> f, err |-> "", note |-> TRUE, got |-> ""]
\* ValueError; err names the message: "set" (received a set ...), "not_dict"
\* (JSON string must parse to a dictionary), "bad_json" (Invalid JSON
\* arguments), "type" (expected dict, JSON string, but got <type>, with the
\* type in got)
ArgsErr(e)   == [ok |-> FALSE, args |-> <<>>, err |-> e, note |-> FALSE, got |-> ""]
ArgsTypeErr(t) == [ok |-> FALSE, args |-> <<>>, err |-> "type", note |-> FALSE, got |-> t]

\* faulty variant of SetArguments: the elements of the set are tried one after
\* the other and the first that holds a JSON object is taken
SetArgumentsLenient(S) ==
    LET good == {x \in S : x.t = "text" /\ Loads(x.v).ok /\ Loads(x.v).val.t = "dict"}
    IN  IF good = {} THEN ArgsErr("set")
        ELSE ArgsNoted(Loads((CHOOSE x \in good : TRUE).v).val.v)

\* faulty variant of SetArguments: a set is rejected whatever it holds
SetArgumentsRejected(S) == ArgsErr("set")

\* the set branch: exactly one element, a str, that parses to a dict
SetArguments(S) ==
    IF Cardinality(S) = 1
    THEN LET json_str == CHOOSE x \in S : TRUE
         IN  IF json_str.t = "text"
             THEN LET parsed == Loads(json_str.v)
                  IN  IF parsed.ok /\ parsed.val.t = "dict"
                      THEN ArgsNoted(parsed.val.v)
                      ELSE ArgsErr("set")
             ELSE ArgsErr("set")
    ELSE ArgsErr("set")

\* the str branch
StrArguments(ts) ==
    LET parsed == Loads(ts)
    IN  IF ~parsed.ok THEN ArgsErr("bad_json")
        ELSE IF parsed.val.t = "dict" THEN ArgsOk(parsed.val.v)
        ELSE ArgsErr("not_dict")

ProcessArguments(arguments) ==
    CASE arguments.t = "none" -> ArgsOk(<<>>)
      [] arguments.t = "dict" -> ArgsOk(arguments.v)
      [] arguments.t = "set"  -> SetArguments(arguments.v)
      [] arguments.t = "text" -> StrArguments(arguments.v)
      [] OTHER                -> ArgsTypeErr(arguments.t)

(***************************************************************************)
(* Names, tool configurations and the MCP bridge                           *)
(***************************************************************************)
\* keys of BUILTIN_TOOLS_REGISTRY
BuiltinTools ==
    { <<"code", "_", "interpreter">>, <<"web", "_", "search">>,
      <<"doc", "_", "parser">>, <<"image", "_", "gen">>,
      <<"retrieval">>, <<"storage">> }

is_builtin_tool(tool_name) == tool_name \in BuiltinTools

\* MCP servers a configuration may name, and the remote tools each exposes
TimeServer   == <<"time">>
RemoteServer == <<"remote", "_", "api">>
DashServer   == <<"my", "-", "srv">>
ServerTools(server) ==
    CASE server = TimeServer   -> <<<<"now">>>>
      [] server = RemoteServer -> <<<<"get">>, <<"now">>>>
      [] OTHER                 -> <<<<"get">>>>

\* a tools configuration: None, a string, or a list of items; an item is a
\* built-in tool name or an {"mcpServers": {...}} dict, of which the server
\* names are kept, in the order of the mapping
NoneCfg       == [t |-> "none", v |-> <<>>]
StrCfg        == [t |-> "str", v |-> <<"category">>]
ListCfg(q)    == [t |-> "list", v |-> q]
BuiltinItem(n) == [t |-> "builtin", name |-> n, servers |-> <<>>, desc |-> ""]
McpItem(q)     == [t |-> "mcp", name |-> <<>>, servers |-> q, desc |-> ""]

McpConfigA == ListCfg(<<McpItem(<<TimeServer, RemoteServer>>), BuiltinItem(<<"storage">>)>>)
McpConfigB == ListCfg(<<McpItem(<<DashServer>>)>>)

Configs == {NoneCfg, StrCfg, ListCfg(<<>>), McpConfigA, McpConfigB}

\* Python truth of a configuration: None, "" and [] are false
Truthy(cfg) == cfg.t # "none" /\ cfg.v # <<>>

\* faulty variant of EffectiveToolsConfig: the tools of the chat turn come
\* before the instance-level configuration
EffectiveToolsConfigChatFirst(tc, lc) ==
    IF lc.t # "none" THEN lc
    ELSE IF tc.t # "none" THEN tc
    ELSE NoneCfg

\* HAI._get_effective_tools_config
EffectiveToolsConfig(tc, lc) ==
    IF tc.t # "none" THEN tc
    ELSE IF lc.t # "none" THEN lc
    ELSE NoneCfg

\* client_id of the bridge's client for a server: {server_name}_{uuid}
ClientId(server) == server \o <<"_", "uuid4">>

NoManager == [present |-> FALSE, clients |-> <<>>, config |-> NoneCfg]

\* the servers named by the mcpServers items of a list configuration
RECURSIVE McpServersOf(_)
McpServersOf(items) ==
    IF items = <<>> THEN <<>>
    ELSE (IF Head(items).t = "mcp" THEN Head(items).servers ELSE <<>>)
           \o McpServersOf(Tail(items))

\* the clients of a bridge initialised for servers, of which those in up
\* could be reached
RECURSIVE ClientsFor(_, _)
ClientsFor(servers, up) ==
    IF servers = <<>> THEN <<>>
    ELSE (IF Head(servers) \in up
          THEN <<[client_id |-> ClientId(Head(servers)),
                  server    |-> Head(servers),
                  tools     |-> ServerTools(Head(servers))]>>
          ELSE <<>>)
           \o ClientsFor(Tail(servers), up)

\* HAI._get_mcp_manager_for_tools: None unless the configuration is a list
\* with mcpServers items and some client was initialised
McpManagerFor(cfg, up) ==
    IF ~Truthy(cfg) \/ cfg.t # "list" THEN NoManager
    ELSE LET clients == ClientsFor(McpServersOf(cfg.v), up)
         IN  IF clients = <<>> THEN NoManager
             ELSE [present |-> TRUE, clients |-> clients, config |-> cfg]

\* client_id.split('_')[0]
ServerNameOf(client_id) ==
    LET cut == {i \in 1..Len(client_id) : client_id[i] = "_"}
    IN  IF cut = {} THEN client_id ELSE SubSeq(client_id, 1, SetMin(cut) - 1)

\* f"{server_name}-{mcp_tool.name}"
ExpectedToolName(client, mcp_tool) ==
    ServerNameOf(client.client_id) \o <<"-">> \o mcp_tool

\* the (client, tool) pairs of the bridge in the order the loops visit them
RECURSIVE McpPairs(_)
McpPairs(clients) ==
    IF clients = <<>> THEN <<>>
    ELSE [k \in 1..Len(Head(clients).tools) |->
             [client |-> Head(clients), tool |-> Head(clients).tools[k]]]
           \o McpPairs(Tail(clients))

\* the first pair whose expected name is tool_name, as a sequence of 0 or 1
McpMatch(manager, tool_name) ==
    LET pairs == McpPairs(manager.clients)
        hits  == {i \in 1..Len(pairs) :
                     ExpectedToolName(pairs[i].client, pairs[i].tool) = tool_name}
    IN  IF hits = {} THEN <<>> ELSE <<pairs[SetMin(hits)]>>

(***************************************************************************)
(* HAI.call                                                                *)
(***************************************************************************)
\* an implementation a call can run: a registry tool, a built-in tool, or
\* remote tool `tool` of the bridge's client for `server`
RegistryImpl(n) == [stage |-> "registry", server |-> <<>>, tool |-> n]
BuiltinImpl(n)  == [stage |-> "builtin", server |-> <<>>, tool |-> n]
McpImpl(pair)   == [stage |-> "mcp", server |-> pair.client.server, tool |-> pair.tool]

\* faulty variant of NotFoundMessage: a name with a dash is always reported as
\* a tool of an MCP server that may not be initialised
NotFoundMessageDashOnly(tool_name, effective) ==
    LET dash == \E i \in 1..Len(tool_name) : tool_name[i] = "-"
    IN  IF dash THEN "mcp_not_initialized"
        ELSE IF ~Truthy(effective) THEN "no_tools_configured"
        ELSE "not_in_registry_builtin_or_mcp"

\* the text of the ValueError raised when no stage has the name
NotFoundMessage(tool_name, effective) ==
    LET dash == \E i \in 1..Len(tool_name) : tool_name[i] = "-"
    IN  IF dash /\ Truthy(effective) THEN "mcp_not_initialized"
        ELSE IF dash /\ ~Truthy(effective) THEN "mcp_but_no_tools_configured"
        ELSE IF ~Truthy(effective) THEN "no_tools_configured"
        ELSE "not_in_registry_builtin_or_mcp"

\* faulty variant of Dispatch: the built-in catalog is looked up before the registry
DispatchBuiltinFirst(reg, effective, manager, tool_name, up) ==
    IF is_builtin_tool(tool_name)
    THEN [status |-> "invoked", consulted |-> <<"builtin">>,
          invoked |-> <<BuiltinImpl(tool_name)>>, manager |-> manager, err |-> ""]
    ELSE IF tool_name \in reg
    THEN [status |-> "invoked", consulted |-> <<"builtin", "registry">>,
          invoked |-> <<RegistryImpl(tool_name)>>, manager |-> manager, err |-> ""]
    ELSE [status |-> "not_found", consulted |-> <<"builtin", "registry">>,
          invoked |-> <<>>, manager |-> manager,
          err |-> NotFoundMessage(tool_name, effective)]

\* the stages of HAI.call after the arguments were processed: what was
\* consulted, what was invoked, and the bridge the client holds afterwards.
\* up: the servers a bridge initialised by this call can reach
Dispatch(reg, effective, manager, tool_name, up) ==
    IF tool_name \in reg
    THEN [status |-> "invoked", consulted |-> <<"registry">>,
          invoked |-> <<RegistryImpl(tool_name)>>, manager |-> manager, err |-> ""]
    ELSE IF is_builtin_tool(tool_name)
    THEN [status |-> "invoked", consulted |-> <<"registry", "builtin">>,
          invoked |-> <<BuiltinImpl(tool_name)>>, manager |-> manager, err |-> ""]
    ELSE IF ~Truthy(effective)
    THEN [status |-> "not_found", consulted |-> <<"registry", "builtin">>,
          invoked |-> <<>>, manager |-> manager,
          err |-> NotFoundMessage(tool_name, effective)]
    ELSE LET mgr == IF manager.present THEN manager ELSE McpManagerFor(effective, up)
             hit == McpMatch(mgr, tool_name)
         IN  IF hit # <<>>
             THEN [status |-> "invoked", consulted |-> <<"registry", "builtin", "mcp">>,
                   invoked |-> <<McpImpl(hit[1])>>, manager |-> mgr, err |-> ""]
             ELSE [status |-> "not_found", consulted |-> <<"registry", "builtin", "mcp">>,
                   invoked |-> <<>>, manager |-> mgr,
                   err |-> NotFoundMessage(tool_name, effective)]

\* faulty variant of CallOutcome: the tools argument is applied after the
\* arguments were processed, so a call with bad arguments leaves the
\* configuration alone
CallOutcomeConfiguresLate(reg, tc, lc, manager, tool_name, arguments, tools, up) ==
    LET given     == tools.t # "none"
        tc1       == IF given THEN tools ELSE tc
        lc1       == IF given THEN NoneCfg ELSE lc
        mgr1      == IF given THEN NoManager ELSE manager
        processed == ProcessArguments(arguments)
        effective == EffectiveToolsConfig(tc1, lc1)
        d         == Dispatch(reg, effective, mgr1, tool_name, up)
    IN  IF ~processed.ok
        THEN [status |-> "arg_error", consulted |-> <<>>, invoked |-> <<>>,
              args |-> <<>>, err |-> processed.err, note |-> FALSE, got |-> processed.got,
              effective |-> effective,
              tools_config |-> tc, last_chat_tools |-> lc, manager |-> manager]
        ELSE [status |-> d.status, consulted |-> d.consulted, invoked |-> d.invoked,
              args |-> processed.args, err |-> d.err, note |-> processed.note, got |-> "",
              effective |-> effective,
              tools_config |-> tc1, last_chat_tools |-> lc1, manager |-> d.manager]

\* HAI.call from the client state (reg, tc, lc, manager); tools.t = "none"
\* is a call without the tools argument
CallOutcome(reg, tc, lc, manager, tool_name, arguments, tools, up) ==
    LET given     == tools.t # "none"
        tc1       == IF given THEN tools ELSE tc
        lc1       == IF given THEN NoneCfg ELSE lc
        mgr1      == IF given THEN NoManager ELSE manager
        processed == ProcessArguments(arguments)
        effective == EffectiveToolsConfig(tc1, lc1)
        d         == Dispatch(reg, effective, mgr1, tool_name, up)
    IN  IF ~processed.ok
        THEN [status |-> "arg_error", consulted |-> <<>>, invoked |-> <<>>,
              args |-> <<>>, err |-> processed.err, note |-> FALSE, got |-> processed.got,
              effective |-> effective,
              tools_config |-> tc1, last_chat_tools |-> lc1, manager |-> mgr1]
        ELSE [status |-> d.status, consulted |-> d.consulted, invoked |-> d.invoked,
              args |-> processed.args, err |-> d.err, note |-> processed.note, got |-> "",
              effective |-> effective,
              tools_config |-> tc1, last_chat_tools |-> lc1, manager |-> d.manager]

(***************************************************************************)
(* Tool normalization: ensure_openai_format, _convert_tools_parameter        *)
(***************************************************************************)
\* further items of a tools list: a wire-format dict {"type": "function",
\* "function": {name, description, parameters}}, a dict whose "type" is not
\* "function", an Fn object (it has to_tool_format, name, description,
\* parameters), and an int
WireItem(n) == [t |-> "wire", name |-> n, servers |-> <<>>, desc |-> "d"]
TypedItem   == [t |-> "typed", name |-> <<>>, servers |-> <<>>, desc |-> ""]
FnItem(n)   == [t |-> "fn", name |-> n, servers |-> <<>>, desc |-> "fn"]
IntItem     == [t |-> "int", name |-> <<>>, servers |-> <<>>, desc |-> ""]

\* a tools value that is a mapping, {"a": 1}
DictCfg == [t |-> "dict", v |-> <<"a">>]

\* isinstance(item, dict) and "type" in item
HasTypeKey(item) == item.t \in {"wire", "typed"}

\* the result of a conversion: a value, or an exception with its kind and,
\* for the unsupported format, the type of the tools it names
Converted(val) == [ok |-> TRUE, val |-> val, err |-> "", got |-> ""]
Raised(e, type) == [ok |-> FALSE, val |-> NoneCfg, err |-> e, got |-> type]

\* the elements of a set in some order
RECURSIVE SetToSeq(_)
SetToSeq(S) ==
    IF S = {} THEN <<>>
    ELSE LET x == CHOOSE y \in S : TRUE IN <<x>> \o SetToSeq(S \ {x})

\* get_tools(names=[tools] if tools else None): the registered tools with
\* that name, every registered tool for ""
GetTools(reg, name) ==
    IF name = <<>> THEN [i \in 1..Cardinality(reg) |-> FnItem(SetToSeq(reg)[i])]
    ELSE IF name \in reg THEN <<FnItem(name)>> ELSE <<>>

\* _convert_fns_to_tools: fn.name of an element that is not an Fn raises
\* AttributeError
ConvertFnsToTools(fns) ==
    IF \E i \in 1..Len(fns) : fns[i].t # "fn"
    THEN Raised("attribute_error", "")
    ELSE Converted(ListCfg([i \in 1..Len(fns) |-> WireItem(fns[i].name)]))

\* ensure_openai_format
EnsureOpenAIFormat(reg, tools) ==
    CASE tools.t = "none" -> Converted(NoneCfg)
      [] tools.t = "str"  -> ConvertFnsToTools(GetTools(reg, tools.v))
      [] tools.t = "list" ->
            IF tools.v = <<>> THEN Converted(ListCfg(<<>>))
            ELSE IF HasTypeKey(tools.v[1]) THEN Converted(tools)
            ELSE IF tools.v[1].t = "fn" THEN ConvertFnsToTools(tools.v)
            ELSE Raised("unsupported_tools_format", "list")
      [] OTHER -> Raised("unsupported_tools_format", tools.t)

\* the wire-format dict the fallback builds for a string item
LegacyTool(item) ==
    [t |-> "wire", name |-> item.name, servers |-> <<>>, desc |-> "Built-in tool"]

\* the fallback of _convert_tools_parameter: strings become wire-format
\* dicts, dicts of type "function" are kept, everything else is skipped
RECURSIVE FilteredTools(_)
FilteredTools(items) ==
    IF items = <<>> THEN <<>>
    ELSE (CASE Head(items).t = "builtin" -> <<LegacyTool(Head(items))>>
            [] Head(items).t = "wire"    -> <<Head(items)>>
            [] OTHER                     -> <<>>)
           \o FilteredTools(Tail(items))

\* _convert_tools_parameter: what chat create puts in the request, the
\* warning it gives and the exception it lets through (none: every
\* exception of the conversion is caught)
ConvertToolsParameter(reg, tools) ==
    IF tools.t = "none" THEN [tools |-> NoneCfg, warned |-> "", raised |-> "", got |-> ""]
    ELSE LET r == EnsureOpenAIFormat(reg, tools)
         IN  IF r.ok THEN [tools |-> r.val, warned |-> "", raised |-> "", got |-> ""]
             ELSE [tools |-> IF tools.t = "list" /\ FilteredTools(tools.v) # <<>>
                             THEN ListCfg(FilteredTools(tools.v))
                             ELSE NoneCfg,
                   warned |-> r.err, raised |-> "", got |-> r.got]

\* the request body of chat create, as far as tools go: optional parameters
\* that are None are left out; tool_choice is None or "auto"
NoRequest ==
    [sent |-> FALSE, has_tools |-> FALSE, tools |-> NoneCfg, has_tool_choice |-> FALSE]

RequestBody(converted_tools, tool_choice) ==
    [sent |-> TRUE,
     has_tools |-> converted_tools.t # "none",
     tools |-> converted_tools,
     has_tool_choice |-> (tool_choice # "None" /\ Truthy(converted_tools))]

(***************************************************************************)
(* Inputs of the client operations                                         *)
(***************************************************************************)
WebSearch == <<"web", "_", "search">>
TimeNow   == <<"time", "-", "now">>

RegistryNames == {WebSearch, TimeNow}

CallNames ==
    { WebSearch, TimeNow,
      <<"remote", "_", "api", "-", "get">>, <<"remote", "-", "get">>,
      <<"my", "-", "srv", "-", "get">>, <<"time", "-", "nope">>, <<"nope">> }

JsonObjects ==
    { <<>>,
      [x |-> PyInt(1)],
      [x |-> PyStr("s"), y |-> PyInt(2)],
      [x |-> PyDict([y |-> PyInt(1)])],
      [x |-> PyList(<<PyInt(1), PyInt(2)>>)] }

ObjectTexts == UNION {JsonTexts(o) : o \in JsonObjects}

OtherTexts ==
    { Dumps(PyList(<<PyInt(1)>>)), Dumps(PyInt(1)), Dumps(PyStr("s")),
      <<>>, <<"{">>, <<"{", "\"x\"", ":", "1">>, <<"{", "}", "}">>,
      <<"{", "\"x\"", "1", "}">>,
      <<"{", "\"x\"", ":", "1", ",", "\"x\"", ":", "2", "}">> }

ArgTexts == ObjectTexts \cup OtherTexts

ArgInputs ==
    {PyNone, PyInt(1), PyList(<<>>)}
      \cup {PyDict(o) : o \in JsonObjects}
      \cup {PyText(ts) : ts \in ArgTexts}
      \cup {PySet({PyText(ts)}) : ts \in ArgTexts}
      \cup { PySet({}), PySet({PyInt(1)}), PySet({PyInt(1), PyInt(2)}),
             PySet({PyText(<<"{", "}">>), PyText(<<"1">>)}),
             PySet({PyText(<<"{", "}">>), PyInt(1)}) }

\* names with which the whole range of arguments is tried
ArgProbeNames == {WebSearch, TimeNow, <<"nope">>}

PlainArgs == PyDict([x |-> PyInt(1)])

ToolChoices == {"None", "auto"}

\* the items of the tools lists chat create is tried with
CodeInterpreter == <<"code", "_", "interpreter">>

ItemAlphabet ==
    { BuiltinItem(CodeInterpreter), WireItem(<<"x">>), FnItem(<<"f">>),
      McpItem(<<TimeServer>>), TypedItem, IntItem }

ChatTools ==
    {NoneCfg, DictCfg} \cup {ListCfg(q) : q \in SeqsUpTo(ItemAlphabet, MaxTools)}

\* the tools argument of a call: absent, or a configuration
CallTools == {NoneCfg, ListCfg(<<>>), McpConfigA}

IdleCall ==
    [name |-> <<>>, arguments |-> PyNone, tools |-> NoneCfg, reg |-> {},
     status |-> "idle", consulted |-> <<>>, invoked |-> <<>>, args |-> <<>>, err |-> "", note |-> FALSE,
     got |-> "", effective |-> NoneCfg, mgr |-> NoManager,
     tc |-> NoneCfg, turn |-> NoneCfg, since |-> FALSE, mgr0 |-> NoManager,
     tool_choice |-> "None", request |-> NoRequest, warned |-> "", raised |-> ""]

\* the record of an operation other than a call: which one ("registered",
\* "configured", "created"), its tools and the bridge it found
Other(op, tools, manager) ==
    [IdleCall EXCEPT !.status = op, !.tools = tools, !.mgr0 = manager]

\* the chat-turn cache after a chat create with tools
CachedChatToolsAlways(lc, tools) == tools

CachedChatTools(lc, tools) == IF tools.t = "none" THEN lc ELSE tools

(***************************************************************************)
(* Operations on the client                                                *)
(***************************************************************************)
\* ToolRegistry.register through get_registry(): last write wins
Register(name) ==
    /\ registry' = registry \cup {name}
    /\ last' = Other("registered", NoneCfg, mcp_manager)
    /\ UNCHANGED <<tools_config, last_chat_tools, mcp_manager>>
    /\ UNCHANGED historyVars
    /\ UNCHANGED <<streamVars, otherVars>>

\* faulty variant of ConfigureTools: the cached bridge is kept
ConfigureToolsKeepsBridge(tools) ==
    /\ tools_config' = tools
    /\ last_chat_tools' = NoneCfg
    /\ configured_since' = TRUE
    /\ last' = Other("configured", tools, mcp_manager)
    /\ UNCHANGED <<registry, chat_turn_tools, mcp_manager>>
    /\ UNCHANGED <<streamVars, otherVars>>

\* HAI.configure_tools
ConfigureTools(tools) ==
    /\ tools_config' = tools
    /\ mcp_manager' = NoManager
    /\ last_chat_tools' = NoneCfg
    /\ configured_since' = TRUE
    /\ last' = Other("configured", tools, mcp_manager)
    /\ UNCHANGED <<registry, chat_turn_tools>>
    /\ UNCHANGED <<streamVars, otherVars>>

\* ChatCompletions.create: tools that are not None are cached and the bridge
\* is dropped, the tools are converted and the request is sent
ChatCreateEffects(tools, tool_choice) ==
    /\ last_chat_tools' = CachedChatTools(last_chat_tools, tools)
    /\ IF tools.t = "none"
       THEN UNCHANGED <<mcp_manager, historyVars>>
       ELSE /\ mcp_manager' = NoManager
            /\ chat_turn_tools' = tools
            /\ configured_since' = FALSE
    /\ LET conv == ConvertToolsParameter(registry, tools)
       IN  last' = [Other("created", tools, mcp_manager) EXCEPT
                       !.tool_choice = tool_choice,
                       !.request = RequestBody(conv.tools, tool_choice),
                       !.warned = conv.warned,
                       !.raised = conv.raised,
                       !.got = conv.got,
                       !.reg = registry]
    /\ UNCHANGED <<registry, tools_config>>

\* chat create with messages that can be converted
ChatCreate(tools, tool_choice) ==
    /\ ChatCreateEffects(tools, tool_choice)
    /\ UNCHANGED <<streamVars, otherVars>>

\* what a bridge initialised now can reach: every server, every server but
\* the time server, or none
Reachable ==
    { {TimeServer, RemoteServer, DashServer}, {RemoteServer, DashServer}, {} }

\* the call gets as far as initialising a bridge
InitialisesBridge(tool_name, arguments, tools) ==
    LET tc1 == IF tools.t # "none" THEN tools ELSE tools_config
        lc1 == IF tools.t # "none" THEN NoneCfg ELSE last_chat_tools
    IN  /\ ProcessArguments(arguments).ok
        /\ tool_name \notin registry
        /\ ~is_builtin_tool(tool_name)
        /\ Truthy(EffectiveToolsConfig(tc1, lc1))
        /\ (tools.t # "none" \/ ~mcp_manager.present)

Call(tool_name, arguments, tools) ==
    \E up \in IF InitialisesBridge(tool_name, arguments, tools)
              THEN Reachable ELSE {{}} :
        LET r == CallOutcome(registry, tools_config, last_chat_tools, mcp_manager,
                             tool_name, arguments, tools, up)
        IN  /\ tools_config' = r.tools_config
            /\ last_chat_tools' = r.last_chat_tools
            /\ mcp_manager' = r.manager
            /\ last' = [name |-> tool_name, arguments |-> arguments, tools |-> tools,
                        reg |-> registry, status |-> r.status, consulted |-> r.consulted,
                        invoked |-> r.invoked, args |-> r.args, err |-> r.err,
                        note |-> r.note, got |-> r.got,
                        effective |-> r.effective, mgr |-> r.manager,
                        tc |-> tools_config, turn |-> chat_turn_tools,
                        since |-> configured_since, mgr0 |-> mcp_manager]
            /\ configured_since' = (configured_since \/ tools.t # "none")
            /\ UNCHANGED <<registry, chat_turn_tools>>
            /\ UNCHANGED <<streamVars, otherVars>>

(***************************************************************************)
(* Specifications                                                          *)
(***************************************************************************)
StreamInit ==
    /\ hide_think \in BOOLEAN
    /\ wire \in SplitWires \cup MixedWires
    /\ pos = 0
    /\ yielded = <<>>
    /\ exit = "none"
    /\ released = FALSE

ClientInit ==
    /\ registry = {}
    /\ tools_config = NoneCfg
    /\ last_chat_tools = NoneCfg
    /\ mcp_manager = NoManager
    /\ last = IdleCall
    /\ chat_turn_tools = NoneCfg
    /\ configured_since = FALSE

\* one streaming response, on a client that is otherwise left alone
InitStream == /\ StreamInit
              /\ ClientInit
              /\ OtherIdle

StreamNext ==
    \/ SkipLine
    \/ Sentinel
    \/ YieldChunk
    \/ DecodeError
    \/ Exhausted
    \/ Abandon
    \/ Collect

SpecStream == InitStream /\ [][StreamNext]_vars

\* a new client, the registry empty, no streaming response in progress
QuietClient ==
    /\ ClientInit
    /\ hide_think = FALSE
    /\ wire = <<>>
    /\ pos = 0
    /\ yielded = <<>>
    /\ exit = "none"
    /\ released = FALSE

\* one client and the registry, with no streaming response in progress
InitClient ==
    /\ QuietClient
    /\ OtherIdle

ClientNext ==
    \/ \E n \in RegistryNames : Register(n)
    \/ \E c \in Configs : ConfigureTools(c)
    \/ \E c \in Configs, tool_choice \in ToolChoices : ChatCreate(c, tool_choice)
    \/ \E n \in CallNames, c \in CallTools : Call(n, PlainArgs, c)

SpecClient == InitClient /\ [][ClientNext]_vars

\* the same client, called with the whole range of arguments
ArgsNext ==
    \/ Register(WebSearch)
    \/ ConfigureTools(McpConfigA)
    \/ \E n \in ArgProbeNames, a \in ArgInputs : Call(n, a, NoneCfg)

SpecArgs == InitClient /\ [][ArgsNext]_vars

\* the client called with and without a tools argument, with arguments that
\* can and cannot be processed
CallToolsNext ==
    \/ Register(WebSearch)
    \/ \E c \in {NoneCfg, McpConfigB} : ConfigureTools(c)
    \/ \E c \in {NoneCfg, McpConfigB} : ChatCreate(c, "None")
    \/ \E n \in {WebSearch, <<"remote", "-", "get">>, <<"nope">>},
          a \in {PlainArgs, PyInt(1)}, c \in CallTools : Call(n, a, c)

SpecCallTools == InitClient /\ [][CallToolsNext]_vars

\* chat create with the whole range of tools lists
ChatNext ==
    \E c \in ChatTools, tool_choice \in ToolChoices : ChatCreate(c, tool_choice)

SpecChat == InitClient /\ [][ChatNext]_vars

(***************************************************************************)
(* Properties of the streaming iterator                                    *)
(***************************************************************************)
IsObjectLine(l) == l.kind = "data" /\ l.payload.t = "object"
IsMalformedLine(l) == l.kind = "data" /\ l.payload.t \in {"badjson", "nonobject"}
IsContentLine(l) ==
    /\ IsObjectLine(l)
    /\ Len(l.payload.choices) = 1
    /\ l.payload.choices[1].has_content

\* the stream w delivers the document doc in content chunks and nothing else
IsSplitOf(w, doc) ==
    /\ \A k \in 1..Len(w) : IsContentLine(w[k])
    /\ Flatten([k \in 1..Len(w) |-> w[k].payload.choices[1].content]) = doc

\* the content the caller received, concatenated (first choice of each chunk)
ReceivedContent ==
    Flatten([k \in 1..Len(yielded) |->
                IF Len(yielded[k].choices) = 0 THEN <<>>
                ELSE yielded[k].choices[1].delta.content])

\* for each position of a document: it is part of a <think> or <ser> block,
\* tags included
RECURSIVE MaskFrom(_, _, _)
MaskFrom(s, i, st) ==
    LET run(n) == [k \in 1..n |-> TRUE]
    IN  IF i > Len(s) THEN <<>>
        ELSE IF st = "PLAIN" /\ HasAt(s, OpenThink, i)
             THEN run(Len(OpenThink)) \o MaskFrom(s, i + Len(OpenThink), "IN_THINK")
        ELSE IF st = "PLAIN" /\ HasAt(s, OpenSer, i)
             THEN run(Len(OpenSer)) \o MaskFrom(s, i + Len(OpenSer), "IN_SER")
        ELSE IF st = "IN_THINK" /\ HasAt(s, CloseThink, i)
             THEN run(Len(CloseThink)) \o MaskFrom(s, i + Len(CloseThink), "PLAIN")
        ELSE IF st = "IN_SER" /\ HasAt(s, CloseSer, i)
             THEN run(Len(CloseSer)) \o MaskFrom(s, i + Len(CloseSer), "PLAIN")
        ELSE <<st # "PLAIN">> \o MaskFrom(s, i + 1, st)

Mask(s) == MaskFrom(s, 1, "PLAIN")
HiddenChars(s) == {s[i] : i \in {j \in 1..Len(s) : Mask(s)[j]}}
ShownChars(s)  == {s[i] : i \in {j \in 1..Len(s) : ~Mask(s)[j]}}

\* the first position of the document that chunk k of the stream w carries
RECURSIVE ChunkStart(_, _)
ChunkStart(w, k) ==
    IF k = 1 THEN 1
    ELSE ChunkStart(w, k - 1) + Len(w[k - 1].payload.choices[1].content)

\* chunk k of the stream w of doc carries a character outside every block
ShowsSomething(doc, w, k) ==
    \E i \in ChunkStart(w, k)..(ChunkStart(w, k) + Len(w[k].payload.choices[1].content) - 1) :
        ~Mask(doc)[i]

\* C1: with hide_think, "<think>secret</think>visible" streamed in chunks cut
\* at any boundaries is received as "visible".
C1_ThinkBlockRemoved ==
    (hide_think /\ exit = "exhausted" /\ IsSplitOf(wire, ThinkDoc))
        => ReceivedContent = Visible

\* C2: with hide_think, no character of a <think>/<ser> block or of its tags
\* appears in the content of a yielded chunk (stated for the documents whose
\* block characters differ from all their visible characters).
C2_NoBlockCharacterYielded ==
    hide_think =>
        \A d \in Documents :
            (IsSplitOf(wire, d) /\ HiddenChars(d) \cap ShownChars(d) = {})
                => \A i \in 1..Len(ReceivedContent) :
                       ReceivedContent[i] \notin HiddenChars(d)

\* C3: with hide_think, a content chunk is forwarded if and only if visible
\* content remains after filtering or it carries a finish_reason (stated for
\* the documents without whitespace, as the number of chunks forwarded).
C3_ForwardedIffVisibleOrFinished ==
    hide_think =>
        \A d \in {ThinkDoc, SerDoc, PlainDoc} :
            (exit = "exhausted" /\ IsSplitOf(wire, d))
                => Len(yielded) =
                     Cardinality({k \in 1..Len(wire) :
                                     \/ ShowsSomething(d, wire, k)
                                     \/ wire[k].payload.choices[1].finish_reason # "None"})

IsBlank(c) == c \in {" ", "\t"}

\* C4: with hide_think, the received content never has three newlines in a
\* row nor two non-newline whitespace characters in a row; "a    b" is
\* received as "a b".
C4_WhitespaceCollapsed ==
    (hide_think /\ exit = "exhausted" /\ \A k \in 1..Len(wire) : IsContentLine(wire[k]))
        => LET out == ReceivedContent
           IN  /\ ~Contains(out, <<"\n", "\n", "\n">>)
               /\ \A i \in 1..(Len(out) - 1) : ~(IsBlank(out[i]) /\ IsBlank(out[i + 1]))
               /\ IsSplitOf(wire, SpacesDoc) => out = <<"a", " ", "b">>

\* the indices, in order, of the lines among the first n of w that hold a JSON object
RECURSIVE ObjectLines(_, _)
ObjectLines(w, n) ==
    IF n = 0 THEN <<>>
    ELSE ObjectLines(w, n - 1) \o (IF IsObjectLine(w[n]) THEN <<n>> ELSE <<>>)

\* C5: without filtering, the chunks yielded are, in order, one for each
\* "data: " line taken before the sentinel, each with the line's choices in
\* order and their content unchanged; no line after the sentinel is taken.
C5_PassThroughInOrder ==
    ~hide_think =>
        LET src == ObjectLines(wire, pos)
        IN  /\ Len(yielded) = Len(src)
            /\ \A j \in 1..Len(src) :
                  LET sent == wire[src[j]].payload.choices
                      got  == yielded[j].choices
                  IN  /\ Len(got) = Len(sent)
                      /\ \A c \in 1..Len(sent) :
                            /\ got[c].delta.has_content = sent[c].has_content
                            /\ got[c].delta.content = sent[c].content
                            /\ got[c].finish_reason = sent[c].finish_reason
            /\ \A k \in 1..(pos - 1) : wire[k].kind # "done"
            /\ exit = "sentinel" => (pos >= 1 /\ wire[pos].kind = "done")

\* witness of C5: unfiltered, a chunk of two choices was yielded, the sentinel
\* ended the iteration and a data line after it was never taken
C5_Witness ==
    /\ ~hide_think
    /\ exit = "sentinel"
    /\ \E j \in 1..Len(yielded) : Len(yielded[j].choices) = 2
    /\ pos < Len(wire)
    /\ IsObjectLine(wire[pos + 1])

\* C6: a malformed "data: " line ends the iteration with an error at that
\* line: the chunks of the earlier lines were yielded, and no line is taken
\* after it.
C6_MalformedLineAborts ==
    /\ \A k \in 1..pos : IsMalformedLine(wire[k]) => (k = pos /\ exit = "error")
    /\ exit = "error" => (pos >= 1 /\ IsMalformedLine(wire[pos]))
    /\ Len(yielded) = Len(ObjectLines(wire, pos))

\* witness of C6: the error was raised after a chunk was yielded and before a
\* well-formed data line
C6_Witness ==
    /\ exit = "error"
    /\ Len(yielded) >= 1
    /\ pos < Len(wire)
    /\ IsObjectLine(wire[pos + 1])

\* C7: the connection of the response is released on every exit of the
\* iteration: exhaustion, sentinel, decode error, abandonment.
C7_ReleasedOnEveryExit == exit # "none" => released

(***************************************************************************)
(* Properties of HAI.call                                                  *)
(***************************************************************************)
Called == last.status \in {"invoked", "not_found", "arg_error"}
Dispatched == last.status \in {"invoked", "not_found"}

\* C8: a call resolves the name in the order registry, built-in catalog, MCP
\* bridge and invokes at most one implementation, that of the first stage that
\* has the name; a later stage is not consulted once a stage has it.
C8_ResolutionOrder ==
    Called =>
        /\ Len(last.invoked) <= 1
        /\ (last.status = "invoked") = (Len(last.invoked) = 1)
        /\ last.status = "arg_error" => last.consulted = <<>>
        /\ (Dispatched /\ last.name \in last.reg)
              => /\ last.invoked = <<RegistryImpl(last.name)>>
                 /\ last.consulted = <<"registry">>
        /\ (Dispatched /\ last.name \notin last.reg /\ last.name \in BuiltinTools)
              => /\ last.invoked = <<BuiltinImpl(last.name)>>
                 /\ last.consulted = <<"registry", "builtin">>
        /\ (Dispatched /\ last.name \notin last.reg /\ last.name \notin BuiltinTools)
              => /\ \A i \in 1..Len(last.invoked) : last.invoked[i].stage = "mcp"
                 /\ last.consulted \in {<<"registry", "builtin">>,
                                         <<"registry", "builtin", "mcp">>}

\* witness of C8: a name held by the registry and by the built-in catalog was
\* called and the registry entry ran
C8_Witness ==
    /\ last.status = "invoked"
    /\ last.name \in last.reg
    /\ last.name \in BuiltinTools
    /\ last.invoked = <<RegistryImpl(last.name)>>

\* C9: with no registry or built-in tool of that name, a call of "S-T" runs
\* tool T of server S for every server S and tool T the bridge knows, and a
\* call runs an MCP tool only under the name "S-T" of its server and tool.
C9_McpNameIsServerDashTool ==
    (Dispatched /\ last.name \notin last.reg /\ last.name \notin BuiltinTools)
        => /\ \A i \in 1..Len(mcp_manager.clients) :
                \A k \in 1..Len(mcp_manager.clients[i].tools) :
                    LET S == mcp_manager.clients[i].server
                        T == mcp_manager.clients[i].tools[k]
                    IN  last.name = S \o <<"-">> \o T
                          => last.invoked = <<[stage |-> "mcp", server |-> S, tool |-> T]>>
           /\ \A i \in 1..Len(last.invoked) :
                last.name = last.invoked[i].server \o <<"-">> \o last.invoked[i].tool

\* the result of a call but for the note printed on the way
SameOutcome(a, b) ==
    /\ a.status = b.status
    /\ a.invoked = b.invoked
    /\ a.args = b.args
    /\ a.err = b.err
    /\ a.manager = b.manager

OutcomeHere(name, arguments, up) ==
    CallOutcome(registry, tools_config, last_chat_tools, mcp_manager,
                name, arguments, NoneCfg, up)

\* C10: for any name and JSON object o, calls with o, with a JSON text of o
\* and with the one-element set of that text run the same tool with the same
\* argument mapping, or fail alike; None is the empty mapping.
C10_ArgumentFormsAgree ==
    /\ \A n \in CallNames, up \in Reachable :
          /\ \A o \in JsonObjects : \A ts \in JsonTexts(o) :
                /\ SameOutcome(OutcomeHere(n, PyDict(o), up), OutcomeHere(n, PyText(ts), up))
                /\ SameOutcome(OutcomeHere(n, PyDict(o), up),
                               OutcomeHere(n, PySet({PyText(ts)}), up))
                /\ OutcomeHere(n, PyDict(o), up).status # "arg_error"
                /\ OutcomeHere(n, PyDict(o), up).args = o
          /\ SameOutcome(OutcomeHere(n, PyNone, up), OutcomeHere(n, PyDict(<<>>), up))
    /\ Called =>
          \A o \in JsonObjects : \A ts \in JsonTexts(o) :
              last.arguments \in {PyDict(o), PyText(ts), PySet({PyText(ts)})}
                  => (last.status # "arg_error" /\ last.args = o)

\* witness of C10: a call with the one-element set of the JSON text of a
\* two-key object ran a tool with that object as its arguments
C10_Witness ==
    /\ last.status = "invoked"
    /\ last.arguments.t = "set"
    /\ last.args = [x |-> PyStr("s"), y |-> PyInt(2)]
    /\ last.note

\* the texts of the inputs that hold a JSON object: the encodings of the
\* objects, and an object written with a key twice
DupKeyText == <<"{", "\"x\"", ":", "1", ",", "\"x\"", ":", "2", "}">>
HoldsJsonObject(x) == x.t = "text" /\ x.v \in ObjectTexts \cup {DupKeyText}

\* C11: a call whose arguments are a set other than a one-element set of a
\* string holding a JSON object fails with the error that mentions the set;
\* arguments of a type other than None, dict, str and set fail with the error
\* that names the received type; in both cases no stage is consulted and no
\* tool is invoked.
C11_BadArgumentsRejected ==
    Called =>
        /\ (/\ last.arguments.t = "set"
            /\ ~(\E x \in last.arguments.v : last.arguments.v = {x} /\ HoldsJsonObject(x)))
              => /\ last.status = "arg_error"
                 /\ last.err = "set"
                 /\ last.invoked = <<>>
                 /\ last.consulted = <<>>
        /\ last.arguments.t \notin {"none", "dict", "text", "set"}
              => /\ last.status = "arg_error"
                 /\ last.err = "type"
                 /\ last.got = last.arguments.t
                 /\ last.invoked = <<>>
                 /\ last.consulted = <<>>

\* witness of C11: a call for a registered tool with a two-element set, one
\* element of which holds a JSON object, was rejected
C11_Witness ==
    /\ last.status = "arg_error"
    /\ last.err = "set"
    /\ last.name \in last.reg
    /\ last.arguments = PySet({PyText(<<"{", "}">>), PyText(<<"1">>)})

\* the name of the last call is in no stage: not in the registry the call
\* saw, not a built-in tool, and not the name the dispatcher gives any tool of
\* the bridge the call ended with
NoStageMatches ==
    /\ last.name \notin last.reg
    /\ ~is_builtin_tool(last.name)
    /\ McpMatch(last.mgr, last.name) = <<>>

\* C12: a call whose name no stage has returns no value: it fails with the
\* not-found error, whose message says that no tools are configured exactly
\* when the effective configuration is empty (None, "" or []), and otherwise
\* says that the MCP servers may not be initialised or that the name was not
\* found in the registry, the built-in tools and the configured MCP tools.
C12_NotFoundDiagnostic ==
    (Called /\ last.status # "arg_error" /\ NoStageMatches) =>
        /\ last.status = "not_found"
        /\ last.invoked = <<>>
        /\ last.err \in {"no_tools_configured", "mcp_but_no_tools_configured"}
              <=> ~Truthy(last.effective)
        /\ Truthy(last.effective)
              => last.err \in {"mcp_not_initialized", "not_in_registry_builtin_or_mcp"}

\* witness of C12: a name with a dash was not found on a client without
\* tools, and the message says so
C12_Witness ==
    /\ last.status = "not_found"
    /\ last.name = <<"time", "-", "nope">>
    /\ ~Truthy(last.effective)
    /\ last.err = "mcp_but_no_tools_configured"

\* the configuration a call without tools falls back to when the instance
\* has tools (inst) or not, given the tools of the chat turn (turn)
PriorityOf(tools, inst, turn) ==
    IF tools.t # "none" THEN tools
    ELSE IF inst.t # "none" THEN inst
    ELSE turn

\* a name that is neither registered nor built-in
NonLocal == last.name \notin last.reg /\ ~is_builtin_tool(last.name)

\* C13 as stated: a call resolves MCP tools against its tools argument, else
\* the instance-level configuration, else the tools of the most recent chat
\* create that gave tools, else none, and then a non-local name is not found.
C13_PriorityOverAnySequence ==
    (Called /\ last.status # "arg_error") =>
        /\ last.effective = PriorityOf(last.tools, last.tc, last.turn)
        /\ (last.effective.t = "none" /\ NonLocal) => last.status = "not_found"

\* C13 amended: the tools of the chat turn count only while no configure_tools
\* and no call with a tools argument ran after that chat create.
C13_PriorityUntilReconfigured ==
    (Called /\ last.status # "arg_error") =>
        /\ last.effective =
              PriorityOf(last.tools, last.tc,
                         IF last.since THEN NoneCfg ELSE last.turn)
        /\ (last.effective.t = "none" /\ NonLocal) => last.status = "not_found"

\* witness of C13: a call without tools on a client whose instance-level
\* configuration and chat-turn tools differ resolved against the former, and
\* one with neither resolved against the chat-turn tools
C13_Witness ==
    /\ last.status = "invoked"
    /\ last.tools.t = "none"
    /\ last.tc.t = "none"
    /\ last.effective = McpConfigA
    /\ last.turn = McpConfigA
    /\ last.invoked[1].stage = "mcp"

\* C14: the cached bridge is absent or was built from the configuration that
\* is effective now; configure_tools and a chat create with tools leave it
\* absent; only a call that reaches the MCP stage builds it, and a call
\* without tools that finds a bridge keeps it.
C14_BridgeMatchesEffectiveConfig ==
    /\ mcp_manager.present
          => /\ mcp_manager.config = EffectiveToolsConfig(tools_config, last_chat_tools)
             /\ mcp_manager.clients # <<>>
    /\ last.status = "configured" => ~mcp_manager.present
    /\ (last.status = "created" /\ last.tools.t # "none") => ~mcp_manager.present
    /\ (last.status = "created" /\ last.tools.t = "none") => mcp_manager = last.mgr0
    /\ last.status = "registered" => mcp_manager = last.mgr0
    /\ Called =>
          /\ (last.tools.t = "none" /\ last.mgr0.present) => mcp_manager = last.mgr0
          /\ (mcp_manager.present /\ mcp_manager # last.mgr0)
                => /\ last.consulted = <<"registry", "builtin", "mcp">>
                   /\ mcp_manager.config = last.effective

\* witness of C14: a call without tools ran a remote tool through the bridge
\* an earlier call had built
C14_Witness ==
    /\ last.status = "invoked"
    /\ last.tools.t = "none"
    /\ last.mgr0.present
    /\ mcp_manager = last.mgr0
    /\ last.invoked[1].stage = "mcp"

\* C15 as stated: the chat-turn cache is the tools of the most recent chat
\* create that gave tools, and a call without tools on a client without
\* instance-level configuration resolves against it.
C15_CacheIsLastChatTools ==
    /\ last_chat_tools = chat_turn_tools
    /\ (Called /\ last.status # "arg_error" /\ last.tools.t = "none" /\ last.tc.t = "none")
          => last.effective = last.turn

\* C15 amended: the cache is the tools of the most recent chat create that
\* gave tools unless configure_tools or a call with a tools argument ran
\* after it, which empties the cache.
C15_CacheUntilReconfigured ==
    /\ last_chat_tools = IF configured_since THEN NoneCfg ELSE chat_turn_tools
    /\ (Called /\ last.status # "arg_error" /\ last.tools.t = "none" /\ last.tc.t = "none")
          => last.effective = IF last.since THEN NoneCfg ELSE last.turn

\* witness of C15: a chat create without tools came after one with tools and
\* the cache still holds the tools of the earlier one
C15_Witness ==
    /\ last.status = "created"
    /\ last.tools.t = "none"
    /\ last_chat_tools = McpConfigB
    /\ chat_turn_tools = McpConfigB
    /\ ~configured_since

(***************************************************************************)
(* Properties of tool normalization and of the request body                *)
(***************************************************************************)
Created == last.status = "created"

\* the tools list chat create put in the request; empty when it put none
NormalizedList == IF last.request.tools.t = "list" THEN last.request.tools.v ELSE <<>>

\* a wire-format tool dict: type "function", with name, description and
\* parameters
IsWireTool(x) == x.t = "wire" /\ x.name # <<>> /\ x.desc # ""

\* a list of built-in tool names and wire-format dicts, with both
MixesNamesAndWire(q) ==
    /\ \A i \in 1..Len(q) : q[i].t \in {"builtin", "wire"}
    /\ \E i \in 1..Len(q) : q[i].t = "builtin"
    /\ \E i \in 1..Len(q) : q[i].t = "wire"

\* C16: a tools list that mixes built-in tool names and wire-format dicts, in
\* any order, normalizes to one wire-format entry per element, in input order.
C16_MixedListKeepsEveryEntry ==
    (Created /\ last.tools.t = "list" /\ MixesNamesAndWire(last.tools.v)) =>
        /\ last.request.tools.t = "list"
        /\ Len(NormalizedList) = Len(last.tools.v)
        /\ \A i \in 1..Len(NormalizedList) :
              /\ IsWireTool(NormalizedList[i])
              /\ NormalizedList[i].name = last.tools.v[i].name

\* C17: when normalization of a list returns a list, every element of it is
\* a wire-format tool dict; no bare string, no mcpServers dict.
C17_ResultIsWireFormat ==
    (Created /\ last.tools.t = "list" /\ last.request.tools.t = "list") =>
        \A i \in 1..Len(NormalizedList) : IsWireTool(NormalizedList[i])

\* C18: tools of an unrecognized top-level shape make chat create fail with
\* the unsupported-tools-format error naming the type, and no request is sent.
C18_UnsupportedShapePropagates ==
    (Created /\ last.tools.t \notin {"none", "str", "list"}) =>
        /\ last.raised = "unsupported_tools_format"
        /\ last.got = last.tools.t
        /\ ~last.request.sent

\* an entry that is valid on its own: a built-in tool name, a wire-format
\* dict, a locally-declared tool descriptor
ValidOnItsOwn(item) == item.t \in {"builtin", "wire", "fn"}

\* C19: for a list with an entry that cannot be converted (here an int) among
\* entries that are valid on their own, chat create does not raise and the
\* request holds the converted form of exactly the valid entries, in order.
C19_BadEntryDroppedSiblingsKept ==
    (/\ Created
     /\ last.tools.t = "list"
     /\ \E i \in 1..Len(last.tools.v) : last.tools.v[i] = IntItem
     /\ \A i \in 1..Len(last.tools.v) :
           last.tools.v[i] = IntItem \/ ValidOnItsOwn(last.tools.v[i])) =>
        LET valid == SelectSeq(last.tools.v, ValidOnItsOwn)
        IN  /\ last.raised = ""
            /\ Len(NormalizedList) = Len(valid)
            /\ \A i \in 1..Len(NormalizedList) :
                  /\ IsWireTool(NormalizedList[i])
                  /\ NormalizedList[i].name = valid[i].name

\* C20: the request body has the key tools only if the normalizer gave a
\* non-empty list, and the key tool_choice only if it has the key tools.
C20_ToolsKeyOnlyWhenNonEmpty ==
    Created =>
        /\ last.request.has_tools
              => (last.request.tools.t = "list" /\ last.request.tools.v # <<>>)
        /\ last.request.has_tool_choice => last.request.has_tools

(***************************************************************************)
(* ChatCompletions.execute_tool_calls and create_tool_response_messages    *)
(***************************************************************************)
\* a tool call of the message: its id and what its function object does.
\*   "value"   call_with_registry returns 1
\*   "none"    call_with_registry returns None
\*   "set"     call_with_registry returns a set (json.dumps cannot encode it)
\*   "raises"  call_with_registry raises an Exception
\*   "plain"   the function object has no call_with_registry
ToolCall(id, does) == [id |-> id, does |-> does]

ToolCallIds == {"call_a", "call_b"}
ToolCallKinds == {"value", "none", "set", "raises", "plain"}
ToolCalls == {ToolCall(id, does) : id \in ToolCallIds, does \in ToolCallKinds}

\* the entry execute_tool_calls appends for a tool call; error "None" is None
ResultEntry(id, result, error) == [tool_call_id |-> id, result |-> result, error |-> error]

NotImplementedResult == PyDict([error |-> PyStr("not_implemented")])

ResultOf(tool_call) ==
    CASE tool_call.does = "plain"  -> ResultEntry(tool_call.id, NotImplementedResult, "None")
      [] tool_call.does = "value"  -> ResultEntry(tool_call.id, PyInt(1), "None")
      [] tool_call.does = "none"   -> ResultEntry(tool_call.id, PyNone, "None")
      [] tool_call.does = "set"    -> ResultEntry(tool_call.id, PySet({PyInt(1)}), "None")
      [] tool_call.does = "raises" -> ResultEntry(tool_call.id, PyNone, "str(e)")

\* if not message.tool_calls: return []
ReturnNoResults ==
    /\ batch.phase = "executing"
    /\ batch.calls = <<>>
    /\ batch' = [batch EXCEPT !.phase = "returned"]
    /\ UNCHANGED exceptBatch

\* faulty variant of ExecuteToolCall: the exception of a tool call is not
\* caught and ends the loop
ExecuteToolCallUncaught ==
    /\ batch.phase = "executing"
    /\ batch.i < Len(batch.calls)
    /\ LET tool_call == batch.calls[batch.i + 1]
       IN  batch' =
             IF tool_call.does = "raises"
             THEN [batch EXCEPT !.phase = "raised", !.i = @ + 1,
                                !.ran = Append(@, batch.i + 1)]
             ELSE [batch EXCEPT
                      !.i = @ + 1,
                      !.results = Append(@, ResultOf(tool_call)),
                      !.ran = IF tool_call.does = "plain" THEN @ ELSE Append(@, batch.i + 1)]
    /\ UNCHANGED exceptBatch

\* one turn of the loop over message.tool_calls; ran lists the positions
\* whose function was called
ExecuteToolCall ==
    /\ batch.phase = "executing"
    /\ batch.i < Len(batch.calls)
    /\ LET tool_call == batch.calls[batch.i + 1]
       IN  batch' = [batch EXCEPT
                        !.i = @ + 1,
                        !.results = Append(@, ResultOf(tool_call)),
                        !.ran = IF tool_call.does = "plain" THEN @ ELSE Append(@, batch.i + 1)]
    /\ UNCHANGED exceptBatch

\* return results
ReturnResults ==
    /\ batch.phase = "executing"
    /\ batch.calls # <<>>
    /\ batch.i = Len(batch.calls)
    /\ batch' = [batch EXCEPT !.phase = "returned"]
    /\ UNCHANGED exceptBatch

\* create_tool_response_message
ToolResponseMessage(tool_call_id, content) ==
    [role |-> "tool", tool_call_id |-> tool_call_id, content |-> content]

\* json.dumps can encode the value
Encodable(val) == val.t # "set"

\* the content of the message for a result
ContentOf(result) ==
    IF result.error = "None"
    THEN IF result.result.t # "none" THEN Dumps(result.result) ELSE <<"null">>
    ELSE <<"Error: ", result.error>>

\* create_tool_response_messages on the results execute_tool_calls returned:
\* json.dumps of a result it cannot encode raises TypeError and no message
\* is returned
CreateToolResponseMessages ==
    /\ batch.phase = "returned"
    /\ LET bad == {k \in 1..Len(batch.results) :
                      /\ batch.results[k].error = "None"
                      /\ ~Encodable(batch.results[k].result)}
       IN  batch' =
             IF bad # {}
             THEN [batch EXCEPT !.phase = "type_error"]
             ELSE [batch EXCEPT
                      !.phase = "responded",
                      !.messages = [k \in 1..Len(batch.results) |->
                                       ToolResponseMessage(batch.results[k].tool_call_id,
                                                           ContentOf(batch.results[k]))]]
    /\ UNCHANGED exceptBatch

\* an assistant message with up to MaxCalls tool calls is about to be executed
InitBatch ==
    /\ QuietClient
    /\ ExceptBatchIdle
    /\ \E calls \in SeqsUpTo(ToolCalls, MaxCalls) :
          batch = [BatchIdle EXCEPT !.phase = "executing", !.calls = calls]

BatchNext ==
    \/ ReturnNoResults
    \/ ExecuteToolCall
    \/ ReturnResults
    \/ CreateToolResponseMessages

SpecBatch == InitBatch /\ [][BatchNext]_vars

\* execute_tool_calls has ended
Executed == batch.phase \notin {"idle", "executing"}

\* C21: when execute_tool_calls has ended there is exactly one result per tool
\* call of the message, in the order of the tool calls and each with the id
\* of its call, whatever calls raised; a call that raised has the result
\* {tool_call_id, result: None, error: message}, and the function of every
\* call after it was still called.
C21_OneResultPerToolCall ==
    Executed =>
        /\ Len(batch.results) = Len(batch.calls)
        /\ \A k \in 1..Len(batch.calls) :
              /\ batch.results[k].tool_call_id = batch.calls[k].id
              /\ batch.calls[k].does = "raises" =>
                    batch.results[k] = ResultEntry(batch.calls[k].id, PyNone, "str(e)")
              /\ batch.calls[k].does # "plain" => \E j \in DOMAIN batch.ran : batch.ran[j] = k

\* witness of C21: the first of two calls raised and the second returned its
\* value
C21_Witness ==
    /\ batch.phase = "returned"
    /\ Len(batch.calls) = 2
    /\ batch.calls[1].does = "raises"
    /\ batch.calls[2].does = "value"
    /\ batch.results[2] = ResultEntry(batch.calls[2].id, PyInt(1), "None")

\* C22: create_tool_response_messages on the results of execute_tool_calls
\* ends with one tool-role message per tool call of the message, in order,
\* each with the id of the tool call at its position.
C22_OneMessagePerToolCall ==
    batch.phase \notin {"idle", "executing", "returned"} =>
        /\ Len(batch.messages) = Len(batch.calls)
        /\ \A k \in 1..Len(batch.calls) :
              /\ batch.messages[k].role = "tool"
              /\ batch.messages[k].tool_call_id = batch.calls[k].id

\* C28: in every result of execute_tool_calls error is not None exactly when
\* the tool call was not executed successfully, and result is None then.
C28_ErrorIffNotExecuted ==
    Executed =>
        \A k \in 1..Len(batch.results) :
            LET succeeded == batch.calls[k].does \in {"value", "none", "set"}
            IN  /\ batch.results[k].error # "None" <=> ~succeeded
                /\ ~succeeded => batch.results[k].result = PyNone

(***************************************************************************)
(* MCPManager.is_valid_mcp_servers_config                                  *)
(***************************************************************************)
IsMapping(val) == val.t = "dict"
IsString(val)  == val.t = "str"
HasKey(d, k)   == k \in DOMAIN d.v

\* a mapping whose values are all strings (its keys are strings)
IsStrToStr(val) == IsMapping(val) /\ \A k \in DOMAIN val.v : IsString(val.v[k])

\* a list of strings
IsStrList(val) == val.t = "list" /\ \A i \in DOMAIN val.v : IsString(val.v[i])

\* a server entry that starts a process: a string command, args a list of
\* strings and env a string-to-string mapping where they are present
IsStdioEntry(entry) ==
    /\ HasKey(entry, "command") /\ IsString(entry.v["command"])
    /\ HasKey(entry, "args") => IsStrList(entry.v["args"])
    /\ HasKey(entry, "env") => IsStrToStr(entry.v["env"])

\* a server entry that connects to a URL: a string url, headers a
\* string-to-string mapping where present
IsUrlEntry(entry) ==
    /\ HasKey(entry, "url") /\ IsString(entry.v["url"])
    /\ HasKey(entry, "headers") => IsStrToStr(entry.v["headers"])

\* faulty variant of is_valid_mcp_servers_config: a configuration without
\* servers is rejected
is_valid_mcp_servers_config_nonempty(config) ==
    IF ~IsMapping(config) THEN FALSE
    ELSE IF ~HasKey(config, "mcpServers") THEN FALSE
    ELSE IF ~IsMapping(config.v["mcpServers"]) THEN FALSE
    ELSE LET servers == config.v["mcpServers"].v
         IN  /\ DOMAIN servers # {}
             /\ \A name \in DOMAIN servers :
                   /\ IsMapping(servers[name])
                   /\ IsStdioEntry(servers[name]) \/ IsUrlEntry(servers[name])

is_valid_mcp_servers_config(config) ==
    IF ~IsMapping(config) THEN FALSE
    ELSE IF ~HasKey(config, "mcpServers") THEN FALSE
    ELSE IF ~IsMapping(config.v["mcpServers"]) THEN FALSE
    ELSE LET servers == config.v["mcpServers"].v
         IN  \A name \in DOMAIN servers :
                /\ IsMapping(servers[name])
                /\ IsStdioEntry(servers[name]) \/ IsUrlEntry(servers[name])

\* the values tried for the keys of a server entry
EntryKeys == {"command", "args", "env", "url", "headers"}

GoodMap == PyDict([k |-> PyStr("s")])
BadMap  == PyDict([k |-> PyInt(1)])

EntryValues(key) ==
    CASE key = "command" -> {PyStr("uvx"), PyInt(1)}
      [] key = "args"    -> {PyList(<<PyStr("s")>>), PyList(<<PyInt(1)>>), PyStr("not_a_list")}
      [] key = "env"     -> {GoodMap, BadMap}
      [] key = "url"     -> {PyStr("u"), PyInt(1)}
      [] key = "headers" -> {GoodMap, BadMap}

\* every entry over some of the keys, and an entry that is no mapping
ServerEntries ==
    {PyStr("not_a_dict")}
      \cup {PyDict(f) : f \in UNION {{g \in [K -> UNION {EntryValues(k) : k \in EntryKeys}] :
                                         \A k \in K : g[k] \in EntryValues(k)}
                                     : K \in SUBSET EntryKeys}}

\* the entries of the repository's tests
TestEntries ==
    { PyDict([command |-> PyStr("uvx"), args |-> PyList(<<PyStr("s")>>)]),
      PyDict([url |-> PyStr("u")]),
      PyStr("not_a_dict"),
      PyDict([command |-> PyInt(1)]) }

McpServersConfig(servers) == PyDict([mcpServers |-> servers])

ValidationInputs ==
    { PyDict(<<>>), PyStr("s"), McpServersConfig(PyStr("not_a_dict")),
      McpServersConfig(PyDict(<<>>)) }
      \cup {McpServersConfig(PyDict([x |-> e])) : e \in ServerEntries}
      \cup {McpServersConfig(PyDict([x |-> e, y |-> f])) : e \in ServerEntries, f \in TestEntries}

Validate ==
    /\ validation.phase = "given"
    /\ validation' = [validation EXCEPT
                         !.phase = "validated",
                         !.result = is_valid_mcp_servers_config(validation.config)]
    /\ UNCHANGED exceptValidation

InitValidation ==
    /\ QuietClient
    /\ ExceptValidationIdle
    /\ \E config \in ValidationInputs :
          validation = [ValidationIdle EXCEPT !.phase = "given", !.config = config]

ValidationNext == Validate

SpecValidation == InitValidation /\ [][ValidationNext]_vars

\* the mcpServers mapping of a configuration, <<>> when it has none
ServersOf(config) ==
    IF IsMapping(config) /\ HasKey(config, "mcpServers") /\ IsMapping(config.v["mcpServers"])
    THEN config.v["mcpServers"].v ELSE <<>>

\* C23: validation returns true exactly for a configuration with a top-level
\* mcpServers mapping whose every entry is a mapping with a string command
\* (args a list of strings, env string-to-string, where present) or a string
\* url (headers string-to-string where present); so an empty mcpServers is
\* valid, and {}, a non-mapping mcpServers, a non-mapping entry, a
\* non-string command and a non-list args are not.
C23_ValidExactlyWhenWellFormed ==
    validation.phase = "validated" =>
        LET config  == validation.config
            servers == ServersOf(config)
            shaped  == /\ config.t = "dict"
                       /\ "mcpServers" \in DOMAIN config.v
                       /\ config.v["mcpServers"].t = "dict"
            wrong   == {n \in DOMAIN servers :
                           \/ servers[n].t # "dict"
                           \/ ~(IsStdioEntry(servers[n]) \/ IsUrlEntry(servers[n]))}
        IN  /\ validation.result <=> (shaped /\ wrong = {})
            /\ config = McpServersConfig(PyDict(<<>>)) => validation.result
            /\ config = PyDict(<<>>) => ~validation.result
            /\ config = McpServersConfig(PyStr("not_a_dict")) => ~validation.result
            /\ (\E n \in DOMAIN servers : servers[n] = PyStr("not_a_dict")) => ~validation.result
            /\ (\E n \in DOMAIN servers : servers[n] = PyDict([command |-> PyInt(1)]))
                  => ~validation.result
            /\ (\E n \in DOMAIN servers :
                   servers[n] = PyDict([command |-> PyStr("uvx"), args |-> PyStr("not_a_list")]))
                  => ~validation.result

\* witness of C23: a configuration with a process server and a URL server was
\* found valid
C23_Witness ==
    /\ validation.phase = "validated"
    /\ validation.result
    /\ DOMAIN ServersOf(validation.config) = {"x", "y"}
    /\ IsUrlEntry(ServersOf(validation.config)["x"])
    /\ ~IsUrlEntry(ServersOf(validation.config)["y"])

(***************************************************************************)
(* Built-in tools: execute                                                 *)
(***************************************************************************)
\* the built-in tools with a module of their own in builtin_tools
ToolNames == {"storage", "web_search", "doc_parser", "image_gen", "retrieval"}

\* parameters["properties"] of a tool
Properties(tool) ==
    CASE tool = "storage"    -> {"action", "filename", "content"}
      [] tool = "web_search" -> {"query", "max_results"}
      [] tool = "doc_parser" -> {"file_path", "max_length"}
      [] tool = "image_gen"  -> {"prompt", "size"}
      [] tool = "retrieval"  -> {"query", "top_k"}

\* parameters["required"] of a tool
Required(tool) ==
    CASE tool = "storage"    -> {"action"}
      [] tool = "web_search" -> {"query"}
      [] tool = "doc_parser" -> {"file_path"}
      [] tool = "image_gen"  -> {"prompt"}
      [] tool = "retrieval"  -> {"query"}

\* the values a keyword argument is tried with; "" is the empty string
ParamValues(key) ==
    IF key = "action" THEN {"store", "retrieve", "list", "delete", "move"}
    ELSE IF key \in {"filename", "content", "query"} THEN {"", "v"}
    ELSE {"v"}

KwargsOf(tool) ==
    UNION {{kw \in [K -> UNION {ParamValues(k) : k \in Properties(tool)}] :
               \A k \in K : kw[k] \in ParamValues(k)}
           : K \in SUBSET Properties(tool)}

\* BuiltinToolBase._validate_parameters: the required parameters that are
\* not among the keyword arguments
MissingRequired(tool, kwargs) == Required(tool) \ DOMAIN kwargs

\* the outcome of execute: what was raised ("" when it returned), the fields
\* the error names, and the work done on files and the network
Outcome(raised, named, work) == [raised |-> raised, named |-> named, work |-> work]

\* kwargs.get(key) is false in Python: absent or empty
Falsy(kwargs, key) == key \notin DOMAIN kwargs \/ kwargs[key] = ""

\* StorageTool.execute after validation; io is whether the file operation
\* succeeds
StorageExecute(kwargs, io) ==
    LET action == kwargs["action"]
        done(work) == Outcome(IF io = "ok" THEN "" ELSE "ToolExecutionError", {}, {work})
    IN  CASE action = "store" ->
               IF Falsy(kwargs, "filename") \/ Falsy(kwargs, "content")
               THEN Outcome("ToolExecutionError", {"filename", "content"}, {})
               ELSE done("write")
          [] action = "retrieve" ->
               IF Falsy(kwargs, "filename")
               THEN Outcome("ToolExecutionError", {"filename"}, {})
               ELSE done("read")
          [] action = "list" -> done("list")
          [] action = "delete" ->
               IF Falsy(kwargs, "filename")
               THEN Outcome("ToolExecutionError", {"filename"}, {})
               ELSE done("delete")
          [] OTHER -> Outcome("ToolExecutionError", {}, {})

\* execute of a built-in tool
ExecuteTool(tool, kwargs, io) ==
    LET missing == MissingRequired(tool, kwargs)
        io_work(work) == Outcome(IF io = "ok" THEN "" ELSE "ToolExecutionError", {}, {work})
    IN  IF missing # {} THEN Outcome("SchemaValidationError", missing, {})
        ELSE CASE tool = "storage"    -> StorageExecute(kwargs, io)
               [] tool = "web_search" ->
                    IF kwargs["query"] = "" THEN Outcome("", {}, {}) ELSE io_work("network")
               [] tool = "doc_parser" -> io_work("read")
               [] OTHER               -> Outcome("", {}, {})

Execute ==
    /\ tool_run.phase = "called"
    /\ LET r == ExecuteTool(tool_run.tool, tool_run.kwargs, tool_run.io)
       IN  tool_run' = [tool_run EXCEPT !.phase = "ended", !.raised = r.raised,
                                        !.named = r.named, !.work = r.work]
    /\ UNCHANGED exceptToolRun

InitTools ==
    /\ QuietClient
    /\ ExceptToolRunIdle
    /\ \E tool \in ToolNames, io \in {"ok", "fails"} :
          \E kwargs \in KwargsOf(tool) :
             tool_run = [ToolRunIdle EXCEPT !.phase = "called", !.tool = tool,
                                            !.kwargs = kwargs, !.io = io]

ToolsNext == Execute

SpecTools == InitTools /\ [][ToolsNext]_vars

\* the parameters the operation asked for requires
OperationRequires(tool, kwargs) ==
    Required(tool)
      \cup (IF tool = "storage" /\ "action" \in DOMAIN kwargs
            THEN CASE kwargs["action"] = "store" -> {"filename", "content"}
                   [] kwargs["action"] \in {"retrieve", "delete"} -> {"filename"}
                   [] OTHER -> {}
            ELSE {})

\* C24: execute of a built-in tool without a parameter its operation requires
\* raises a schema-validation error that names the missing fields, and no
\* file was read, written or deleted and no network request made.
C24_MissingParameterRejected ==
    tool_run.phase = "ended" =>
        LET missing == OperationRequires(tool_run.tool, tool_run.kwargs) \ DOMAIN tool_run.kwargs
        IN  missing # {} =>
               /\ tool_run.raised = "SchemaValidationError"
               /\ missing \subseteq tool_run.named
               /\ tool_run.work = {}

(***************************************************************************)
(* Two concurrent HAI.call invocations: the MCP stage                      *)
(***************************************************************************)
Threads == {1, 2}

\* self._mcp_manager holds None
NoBridge == [by |-> 0, mgr |-> NoManager]

\* the value thread t's _get_mcp_manager_for_tools call returns
Bridge(t, manager) == IF manager.present THEN [by |-> t, mgr |-> manager] ELSE NoBridge

\* a call that has reached its MCP stage
CallAtMcpStage ==
    [pc |-> "check", saw |-> "", mine |-> NoBridge, used |-> NoBridge]

\* if not self._mcp_manager
CheckCache(t) ==
    /\ race.phase = "racing"
    /\ race.calls[t].pc = "check"
    /\ race' = [race EXCEPT
                   !.calls[t].pc = IF race.cache.mgr.present THEN "read1" ELSE "build",
                   !.calls[t].saw = IF race.cache.mgr.present THEN "cached" ELSE "none"]
    /\ UNCHANGED exceptRace

\* self._get_mcp_manager_for_tools(effective_tools_config)
BuildBridge(t, up) ==
    /\ race.phase = "racing"
    /\ race.calls[t].pc = "build"
    /\ race' = [race EXCEPT
                   !.calls[t].pc = "store",
                   !.calls[t].mine = Bridge(t, McpManagerFor(race.effective, up))]
    /\ UNCHANGED exceptRace

\* faulty variant of StoreBridge: a bridge stored meanwhile is kept
StoreBridgeIfAbsent(t) ==
    /\ race.phase = "racing"
    /\ race.calls[t].pc = "store"
    /\ race' = [race EXCEPT
                   !.calls[t].pc = "read1",
                   !.cache = IF @.mgr.present THEN @ ELSE race.calls[t].mine,
                   !.stored = Append(@, t)]
    /\ UNCHANGED exceptRace

\* self._mcp_manager = ...
StoreBridge(t) ==
    /\ race.phase = "racing"
    /\ race.calls[t].pc = "store"
    /\ race' = [race EXCEPT
                   !.calls[t].pc = "read1",
                   !.cache = race.calls[t].mine,
                   !.stored = Append(@, t)]
    /\ UNCHANGED exceptRace

\* if self._mcp_manager ...
ReadBridge(t) ==
    /\ race.phase = "racing"
    /\ race.calls[t].pc = "read1"
    /\ race' = [race EXCEPT
                   !.calls[t].pc = IF race.cache.mgr.present THEN "read2" ELSE "not_found"]
    /\ UNCHANGED exceptRace

\* ... and self._mcp_manager.clients: a second read of the attribute
ReadClients(t) ==
    /\ race.phase = "racing"
    /\ race.calls[t].pc = "read2"
    /\ race' = [race EXCEPT
                   !.calls[t].pc = IF race.cache.mgr.present THEN "read3" ELSE "AttributeError"]
    /\ UNCHANGED exceptRace

\* for client_id, client in self._mcp_manager.clients.items(): the tool is
\* looked up in the clients of the bridge read now
Resolve(t) ==
    /\ race.phase = "racing"
    /\ race.calls[t].pc = "read3"
    /\ race' = [race EXCEPT
                   !.calls[t].pc = IF race.cache.mgr.present THEN "resolved" ELSE "AttributeError",
                   !.calls[t].used = race.cache]
    /\ UNCHANGED exceptRace

\* two calls without a tools argument reach their MCP stage on a client
\* configured with MCP servers and holding no bridge
InitRace ==
    /\ QuietClient
    /\ ExceptRaceIdle
    /\ \E cfg \in {McpConfigA, McpConfigB} :
          race = [phase |-> "racing", effective |-> cfg, cache |-> NoBridge,
                  stored |-> <<>>, calls |-> [t \in Threads |-> CallAtMcpStage]]

RaceNext ==
    \E t \in Threads :
        \/ CheckCache(t)
        \/ \E up \in Reachable : BuildBridge(t, up)
        \/ StoreBridge(t)
        \/ ReadBridge(t)
        \/ ReadClients(t)
        \/ Resolve(t)

SpecRace == InitRace /\ [][RaceNext]_vars

\* both calls saw no cached bridge and each constructed one
BothConstructed ==
    /\ race.phase = "racing"
    /\ \A t \in Threads : race.calls[t].saw = "none" /\ race.calls[t].mine.mgr.present

C26_ToolsArgumentConfigures ==
    [][ /\ (last'.status \in {"invoked", "not_found", "arg_error"} /\ last'.tools.t # "none") =>
              /\ tools_config' = last'.tools
              /\ last_chat_tools' = NoneCfg
              /\ mcp_manager' = NoManager \/ mcp_manager'.config = last'.tools
              /\ mcp_manager'.present => last'.status # "arg_error"
        /\ (/\ Called /\ last.tools.t # "none"
            /\ last'.status \in {"invoked", "not_found", "arg_error"} /\ last'.tools.t = "none") =>
              /\ last'.effective = last.tools
              /\ tools_config' = last.tools
      ]_vars

\* witness of C26: a call with tools and bad arguments on a client with
\* another configuration ended with the client configured with the tools given
C26_Witness ==
    /\ last.status = "arg_error"
    /\ last.tools = McpConfigA
    /\ last.tc # McpConfigA
    /\ tools_config = McpConfigA
    /\ last_chat_tools = NoneCfg
    /\ mcp_manager = NoManager

(***************************************************************************)
(* ChatCompletions.create: the messages argument                           *)
(***************************************************************************)
\* a tool call inside a message: a typed object (it has to_dict) or a dict
TypedCall == [kind |-> "model", id |-> "call_a"]
DictCall  == [kind |-> "dict", id |-> "call_b"]

\* a message of the caller: a dict, a typed object, a list of key/value
\* pairs (dict() accepts it) or an int (dict() raises TypeError)
Message(kind, tool_calls) == [kind |-> kind, role |-> "assistant", tool_calls |-> tool_calls]

MessageAlphabet ==
    { Message("dict", <<TypedCall>>),
      Message("dict", <<DictCall, TypedCall>>),
      Message("model", <<TypedCall>>), Message("pairs", <<DictCall>>),
      Message("int", <<>>) }

MessageLists == SeqsUpTo(MessageAlphabet, MaxMessages)

\* tool_call.to_dict() where the tool call has it
CallToDict(tool_call) ==
    IF tool_call.kind = "model" THEN [tool_call EXCEPT !.kind = "dict"] ELSE tool_call

\* message.to_dict(): a dict of the fields, nested objects converted
ToDict(message) ==
    [message EXCEPT !.kind = "dict",
                    !.tool_calls = [k \in DOMAIN @ |-> CallToDict(@[k])]]

\* one turn of the loop of _convert_messages_to_dicts: what it raises, the
\* dict it appends, and the caller's message as the turn leaves it
ConvertMessage(message) ==
    CASE message.kind = "model" ->
            [raised |-> "", out |-> ToDict(message), left |-> message]
      [] message.kind = "dict" ->
            LET msg_dict == [message EXCEPT
                                !.tool_calls = [k \in DOMAIN @ |-> CallToDict(@[k])]]
            IN  [raised |-> "", out |-> msg_dict, left |-> message]
      [] message.kind = "pairs" ->
            [raised |-> "", out |-> [message EXCEPT !.kind = "dict"], left |-> message]
      [] OTHER ->
            [raised |-> "ValueError", out |-> message, left |-> message]

\* _convert_messages_to_dicts: the loop stops at the first message that
\* cannot be converted
ConvertMessagesToDicts(messages) ==
    LET bad   == {k \in DOMAIN messages : ConvertMessage(messages[k]).raised # ""}
        stop  == IF bad = {} THEN Len(messages) + 1 ELSE SetMin(bad)
        after == [k \in DOMAIN messages |->
                     IF k < stop THEN ConvertMessage(messages[k]).left ELSE messages[k]]
    IN  [raised |-> IF bad = {} THEN "" ELSE "ValueError",
         out    |-> IF bad = {} THEN [k \in DOMAIN messages |-> ConvertMessage(messages[k]).out]
                    ELSE <<>>,
         caller |-> after]

\* faulty variant of CreateWithMessages: the tools are converted, and cached,
\* before the messages
CreateWithMessagesToolsFirst(messages, tools, tool_choice) ==
    LET c == ConvertMessagesToDicts(messages)
    IN  /\ ChatCreateEffects(tools, tool_choice)
        /\ conversion' = [phase  |-> IF c.raised # "" THEN "raised" ELSE "sent",
                          given  |-> messages, caller |-> c.caller, sent |-> c.out,
                          raised |-> c.raised, cache0 |-> last_chat_tools]
        /\ UNCHANGED <<streamVars, batch, validation, tool_run, race, conn, srv>>

\* ChatCompletions.create: the messages are converted first; when that raises
\* nothing else has happened
CreateWithMessages(messages, tools, tool_choice) ==
    LET c == ConvertMessagesToDicts(messages)
    IN  /\ IF c.raised # ""
           THEN /\ last' = Other("create_raised", tools, mcp_manager)
                /\ UNCHANGED <<registry, tools_config, last_chat_tools, mcp_manager,
                               historyVars>>
           ELSE ChatCreateEffects(tools, tool_choice)
        /\ conversion' = [phase  |-> IF c.raised # "" THEN "raised" ELSE "sent",
                          given  |-> messages, caller |-> c.caller, sent |-> c.out,
                          raised |-> c.raised, cache0 |-> last_chat_tools]
        /\ UNCHANGED <<streamVars, batch, validation, tool_run, race, conn, srv>>

\* chat create with the whole range of messages lists, on a client that is
\* also configured and called
MessagesNext ==
    \/ \E messages \in MessageLists, tools \in {NoneCfg, McpConfigA, McpConfigB} :
          CreateWithMessages(messages, tools, "None")
    \/ Call(<<"remote", "-", "get">>, PlainArgs, NoneCfg)

SpecMessages == InitClient /\ [][MessagesNext]_vars

\* C27: a chat create that raised while converting its messages sent no
\* request and left the chat-turn cache and the MCP bridge as they were; and
\* no chat create, failed or not, changed the caller's messages.
C27_FailedConversionLeavesNoTrace ==
    /\ (last.status \in {"created", "create_raised"} /\ conversion.phase = "raised") =>
          /\ last.status = "create_raised"
          /\ last.request = NoRequest
          /\ last_chat_tools = conversion.cache0
          /\ mcp_manager = last.mgr0
    /\ conversion.phase \in {"raised", "sent"} => conversion.caller = conversion.given
    /\ (conversion.phase = "raised") <=>
          (\E k \in DOMAIN conversion.given : conversion.given[k].kind = "int")

\* witness of C27: a chat create with tools whose second message is an int
\* raised on a client that held a chat-turn cache and a bridge, after
\* converting a first message with typed tool calls
C27_Witness ==
    /\ last.status = "create_raised"
    /\ last.tools = McpConfigB
    /\ last_chat_tools = McpConfigA
    /\ mcp_manager.present
    /\ Len(conversion.given) = 2
    /\ conversion.given[1] = Message("dict", <<TypedCall>>)
    /\ conversion.given[2].kind = "int"

(***************************************************************************)
(* MCPRequestHandler: POST /call                                           *)
(***************************************************************************)
\* a POST request: its path, its Content-Length header ("zero", "bad" for
\* one int() rejects, "ok"), its body ("bad_json", "list" for JSON that is no
\* object, "object"), its tool field ("absent", "unknown", "known"), its
\* args field ("absent", "dict", "list", "str") and what the tool does when
\* it is called ("returns", "returns_set" for a value json.dumps cannot
\* encode, or the exception it raises)
Requests ==
    [path : {"/call", "/other"}, length : {"zero", "bad", "ok"},
     body : {"bad_json", "list", "object"}, tool : {"absent", "unknown", "known"},
     args : {"absent", "dict", "list", "str"},
     does : {"returns", "returns_set", "ToolExecutionError", "SchemaValidationError",
             "TypeError"}]

StatusLine(code) == [part |-> "status", code |-> code, type |-> ""]
HeaderBlock      == [part |-> "headers", code |-> 0, type |-> ""]
JsonBody(type)   == [part |-> "body", code |-> 0, type |-> type]

\* _send_json_response: the status line and the headers are written before
\* json.dumps(data) runs, so data it cannot encode raises TypeError after them
SendJsonResponse(encodable, type, status_code) ==
    IF encodable
    THEN [written |-> <<StatusLine(status_code), HeaderBlock, JsonBody(type)>>, raised |-> ""]
    ELSE [written |-> <<StatusLine(status_code), HeaderBlock>>, raised |-> "TypeError"]

\* _send_error_response
SendErrorResponse(status_code, error_type) == SendJsonResponse(TRUE, error_type, status_code)

\* _execute_tool: what it raises ("" when the tool returned)
ExecuteToolRaises(request) ==
    IF request.tool = "unknown" THEN "ToolExecutionError"
    ELSE IF request.args = "str" THEN "SchemaValidationError"
    ELSE IF request.does \in {"returns", "returns_set"} THEN ""
    ELSE request.does

\* the except clauses of _handle_call_tool
HandlerFor(raised) ==
    CASE raised = "ToolExecutionError"    -> SendErrorResponse(400, "tool_execution_error")
      [] raised = "SchemaValidationError" -> SendErrorResponse(400, "schema_validation_error")
      [] OTHER                            -> SendErrorResponse(500, "internal_error")

\* _handle_call_tool: everything it writes to the connection
HandleCallTool(request) ==
    IF request.length = "bad" THEN HandlerFor("ValueError").written
    ELSE IF request.length = "zero" THEN SendErrorResponse(400, "invalid_request").written
    ELSE IF request.body = "bad_json" THEN SendErrorResponse(400, "invalid_json").written
    ELSE IF request.body # "object" THEN SendErrorResponse(400, "invalid_request").written
    ELSE IF request.tool = "absent" THEN SendErrorResponse(400, "missing_tool").written
    ELSE IF ExecuteToolRaises(request) # "" THEN HandlerFor(ExecuteToolRaises(request)).written
    ELSE LET sent == SendJsonResponse(request.does = "returns", "result", 200)
         IN  IF sent.raised = "" THEN sent.written
             ELSE sent.written \o HandlerFor(sent.raised).written

\* the tool was called and returned
ToolRan(request) ==
    /\ request.length = "ok" /\ request.body = "object" /\ request.tool = "known"
    /\ ExecuteToolRaises(request) = ""

\* do_POST
DoPost ==
    /\ conn.phase = "received"
    /\ conn' = [conn EXCEPT
                   !.phase = "handled",
                   !.ran = conn.request.path = "/call" /\ ToolRan(conn.request),
                   !.written = IF conn.request.path = "/call"
                               THEN HandleCallTool(conn.request)
                               ELSE SendErrorResponse(404, "not_found").written]
    /\ UNCHANGED exceptConn

InitServerCall ==
    /\ QuietClient
    /\ ExceptConnIdle
    /\ \E request \in Requests :
          conn = [ConnIdle EXCEPT !.phase = "received", !.request = request]

ServerCallNext == DoPost

SpecServerCall == InitServerCall /\ [][ServerCallNext]_vars

\* C29: for a POST /call the handler writes exactly one response (one status
\* line, one header block, one JSON body): 200 with the result when the tool
\* ran, an error status with an error object in every other case.
C29_ExactlyOneResponse ==
    (conn.phase = "handled" /\ conn.request.path = "/call") =>
        /\ Len(conn.written) = 3
        /\ conn.written[1].part = "status"
        /\ conn.written[2].part = "headers"
        /\ conn.written[3].part = "body"
        /\ IF conn.ran /\ conn.request.does = "returns"
           THEN conn.written[1].code = 200 /\ conn.written[3].type = "result"
           ELSE conn.written[1].code >= 400 /\ conn.written[3].type # "result"

(***************************************************************************)
(* MCPServer.start and MCPServer.stop                                      *)
(*                                                                         *)
(* srv.server is MCPServer.server ("None" or "HTTPServer").  The HTTPServer *)
(* of the standard library keeps a flag shutdown_request and an event      *)
(* is_shut_down: serve_forever clears the event, runs until the flag is    *)
(* set, then resets the flag and sets the event; shutdown sets the flag    *)
(* and waits for the event.                                                *)
(***************************************************************************)
\* start: self.server = HTTPServer(...); the constructor may raise OSError
\* (the port is taken), which start logs and raises again
Construct(ok) ==
    /\ srv.phase = "live"
    /\ srv.starter = "called"
    /\ srv' = IF ~ok THEN [srv EXCEPT !.starter = "raised"]
              ELSE [srv EXCEPT !.server = "HTTPServer",
                               !.shutdown_request = FALSE,
                               !.is_shut_down = FALSE,
                               !.starter = IF srv.blocking THEN "constructed" ELSE "returned"]
    /\ UNCHANGED exceptSrv

\* start(blocking=True): self.server.serve_forever() begins
ServeForever ==
    /\ srv.phase = "live"
    /\ srv.starter = "constructed"
    /\ srv' = [srv EXCEPT !.is_shut_down = FALSE, !.starter = "serving"]
    /\ UNCHANGED exceptSrv

\* a turn of the loop of serve_forever that handles a request
HandleRequest ==
    /\ srv.phase = "live"
    /\ srv.starter = "serving"
    /\ ~srv.shutdown_request
    /\ srv.handled < MaxServed
    /\ srv' = [srv EXCEPT !.handled = @ + 1]
    /\ UNCHANGED exceptSrv

\* the loop of serve_forever sees the flag and ends
LoopEnds ==
    /\ srv.phase = "live"
    /\ srv.starter = "serving"
    /\ srv.shutdown_request
    /\ srv' = [srv EXCEPT !.starter = "leaving"]
    /\ UNCHANGED exceptSrv

\* the finally clause of serve_forever resets the flag and sets the event,
\* and start returns
ServeForeverEnds ==
    /\ srv.phase = "live"
    /\ srv.starter = "leaving"
    /\ srv' = [srv EXCEPT !.shutdown_request = FALSE, !.is_shut_down = TRUE,
                          !.starter = "returned"]
    /\ UNCHANGED exceptSrv

\* the server has been started: start has come past the constructor
Started == srv.starter \in {"constructed", "serving", "leaving", "returned"}

\* stop: if self.server: self.server.shutdown() sets the flag and waits
Stop ==
    /\ srv.phase = "live"
    /\ srv.stopper \in {"idle", "done"}
    /\ srv.stops < MaxStops
    /\ srv.starter \in {"never", "raised"} \/ Started
    /\ srv' = IF srv.server = "None"
              THEN [srv EXCEPT !.stopper = "done", !.stops = @ + 1]
              ELSE [srv EXCEPT !.shutdown_request = TRUE, !.stopper = "waiting",
                               !.stops = @ + 1]
    /\ UNCHANGED exceptSrv

\* the event is set: shutdown returns
ShutdownReturns ==
    /\ srv.phase = "live"
    /\ srv.stopper = "waiting"
    /\ srv.is_shut_down
    /\ srv' = [srv EXCEPT !.stopper = "closing"]
    /\ UNCHANGED exceptSrv

\* self.server.server_close(); self.server = None
StopReturns ==
    /\ srv.phase = "live"
    /\ srv.stopper = "closing"
    /\ srv' = [srv EXCEPT !.stopper = "done", !.server = "None"]
    /\ UNCHANGED exceptSrv

\* get_server_info()["running"]
GetServerInfo ==
    /\ srv.phase = "live"
    /\ srv' = [srv EXCEPT !.reported = IF srv.server # "None" THEN "running" ELSE "stopped"]
    /\ UNCHANGED exceptSrv

\* a server that is never started, one started with blocking=False, or one
\* started with blocking=True in a thread of its own
InitServer ==
    /\ QuietClient
    /\ ExceptSrvIdle
    /\ \E blocking \in BOOLEAN, starter \in {"never", "called"} :
          srv = [SrvIdle EXCEPT !.phase = "live", !.blocking = blocking,
                                !.starter = starter, !.stopper = "idle"]

ServerNext ==
    \/ \E ok \in BOOLEAN : Construct(ok)
    \/ ServeForever
    \/ HandleRequest
    \/ LoopEnds
    \/ ServeForeverEnds
    \/ Stop
    \/ ShutdownReturns
    \/ StopReturns
    \/ GetServerInfo

SpecServer == InitServer /\ [][ServerNext]_vars

\* C30: a stop() after start is never left waiting for an event that no
\* thread will set, and once it has returned the server is reported as not
\* running; stop() on a server that was never started changes nothing.
C30_StopTerminates ==
    /\ (srv.phase = "live" /\ srv.stopper = "waiting") =>
          \/ srv.is_shut_down
          \/ srv.starter \in {"constructed", "serving", "leaving"}
    /\ (srv.phase = "live" /\ srv.stopper = "done") =>
          /\ srv.server = "None"
          /\ srv.starter \in {"never", "raised"} => srv.reported # "running"

====
